---- MODULE Spec2Model ----
(***************************************************************************)
(* Model of the KYC verification service: the field extractors            *)
(* (aadhar_validation.py, pan_validation.py), the slot validator          *)
(* (kyc_input_checks.py), the deepfake scorer (deepfake_detection.py)     *)
(* and the request handler verify_kyc (final_kyc_api.py).                  *)
(*                                                                         *)
(* Python strings are sequences of one-character strings; Python's None   *)
(* is the one-element sequence None, distinct from every text.            *)
(***************************************************************************)
EXTENDS Integers, Sequences, FiniteSets, TLC

VARIABLES
    fn, arg, ret, done,            \* a call of one pure function: name, argument, result
    pc,                            \* position of verify_kyc in its body
    ran,                           \* the steps of verify_kyc executed so far, in order
    exts,                          \* aadhaar_ext, pan_ext, selfie_ext
    files_written,                 \* number of upload files written to disk
    selfie_file,                   \* the selfie upload on disk: none, ok, unreadable, missing
    aadhaar_no, dob, age_status,   \* locals of verify_kyc
    pan_no, selfie_text, selfie_has_face,
    issues, deepfake_result, face_result,
    score, is_deepfake, status,
    storage,                       \* users.storage: the records save_kyc inserted
    email_result,                  \* result of send_kyc_email
    http,                          \* the reply: code 0 while running, then 200 or 400
    clock,                         \* the date datetime.now() reads, shared by all requests
    uploads_dir,                   \* the files under uploads/, by slot and file name
    requests                       \* the locals of each of several concurrent requests

callVars == <<fn, arg, ret, done>>
reqVars  == <<pc, ran, exts, files_written, selfie_file, aadhaar_no, dob, age_status, pan_no,
              selfie_text, selfie_has_face, issues, deepfake_result, face_result,
              score, is_deepfake, status, storage, email_result, http>>
conVars  == <<clock, uploads_dir, requests>>
vars     == <<fn, arg, ret, done, pc, ran, exts, files_written, selfie_file, aadhaar_no, dob,
              age_status, pan_no, selfie_text, selfie_has_face, issues,
              deepfake_result, face_result, score, is_deepfake, status, storage,
              email_result, http, clock, uploads_dir, requests>>

(***************************************************************************)
(* Bounds                                                                  *)
(***************************************************************************)
\* longest run of padding characters put before and after an ID group
MaxPad == 1
\* most tokens in a recognised PAN text
MaxPanTokens == 3
\* most tokens in a recognised Aadhaar text handed to extract_dob
MaxDobTokens == 3
\* longest run of letters in a selfie text handed to validate_kyc_slots
MaxSelfieLen == 36
MaxGap == 4
\* longest short line handed to _generate_date_candidates
MaxLineLen == 3
\* most two-choice characters in a line handed to _generate_date_candidates
MaxAmbiguous == 8

(***************************************************************************)
(* Characters and strings                                                  *)
(***************************************************************************)
None == <<"None">>

Digit == {"0", "1", "2", "3", "4", "5", "6", "7", "8", "9"}
Upper == {"A", "B", "C", "D", "E", "F", "G", "H", "I", "J", "K", "L", "M",
          "N", "O", "P", "Q", "R", "S", "T", "U", "V", "W", "X", "Y", "Z"}
Lower == {"a", "b", "c", "d", "e", "f", "g", "h", "i", "j", "k", "l", "m",
          "n", "o", "p", "q", "r", "s", "t", "u", "v", "w", "x", "y", "z"}
\* \w and \s of Python's re on the characters the model uses
WordChar   == Digit \cup Upper \cup Lower \cup {"_"}
Whitespace == {" ", "\t", "\n", "\r", "\f"}

\* the character at position i, or "" outside the string
At(s, i) == IF i >= 1 /\ i <= Len(s) THEN s[i] ELSE ""

\* \b at the gap before position i (between s[i-1] and s[i])
WordBoundary(s, i) == (At(s, i - 1) \in WordChar) # (At(s, i) \in WordChar)

AllIn(s, i, n, class) == \A k \in 0 .. (n - 1) : At(s, i + k) \in class

\* str.replace(old, "") for a one-character old
RemoveChar(s, c) == SelectSeq(s, LAMBDA x : x # c)

\* the sequences over alphabet of length at most n
RECURSIVE SeqsUpTo(_, _)
SeqsUpTo(alphabet, n) ==
    IF n = 0 THEN {<<>>}
    ELSE LET shorter == SeqsUpTo(alphabet, n - 1)
         IN  shorter \cup {Append(s, c) : s \in shorter, c \in alphabet}

\* concatenation of a sequence of strings
RECURSIVE Concat(_)
Concat(ss) == IF ss = <<>> THEN <<>> ELSE Head(ss) \o Concat(Tail(ss))

(***************************************************************************)
(* aadhar_validation.extract_aadhaar_number                                *)
(***************************************************************************)
\* length of the match of  \b\d{4}\s\d{4}\s\d{4}\b | \b\d{12}\b  at position i, or 0
AadhaarMatchLen(s, i) ==
    IF /\ WordBoundary(s, i)
       /\ AllIn(s, i, 4, Digit) /\ At(s, i + 4) \in Whitespace
       /\ AllIn(s, i + 5, 4, Digit) /\ At(s, i + 9) \in Whitespace
       /\ AllIn(s, i + 10, 4, Digit)
       /\ WordBoundary(s, i + 14)
    THEN 14
    ELSE IF WordBoundary(s, i) /\ AllIn(s, i, 12, Digit) /\ WordBoundary(s, i + 12)
    THEN 12
    ELSE 0

\* re.search: the leftmost position with a match, or 0
AadhaarSearch(s) ==
    LET hits == {i \in 1 .. Len(s) : AadhaarMatchLen(s, i) > 0}
    IN  IF hits = {} THEN 0 ELSE CHOOSE i \in hits : \A j \in hits : i <= j

extract_aadhaar_number_keep_spaces(text) ==
    LET i == AadhaarSearch(text)
    IN  IF i = 0 THEN None
        ELSE SubSeq(text, i, i + AadhaarMatchLen(text, i) - 1)

extract_aadhaar_number(text) ==
    LET i == AadhaarSearch(text)
    IN  IF i = 0 THEN None
        ELSE RemoveChar(SubSeq(text, i, i + AadhaarMatchLen(text, i) - 1), " ")

(***************************************************************************)
(* pan_validation.extract_pan_number                                       *)
(***************************************************************************)
\* [A-Z]{5}[0-9]{4}[A-Z] at position i
PanMatchAt(s, i) ==
    AllIn(s, i, 5, Upper) /\ AllIn(s, i + 5, 4, Digit) /\ At(s, i + 9) \in Upper

PanSearch(s) ==
    LET hits == {i \in 1 .. Len(s) : PanMatchAt(s, i)}
    IN  IF hits = {} THEN 0 ELSE CHOOSE i \in hits : \A j \in hits : i <= j

\* str.upper() on the characters the model uses
UpperOf(c) ==
    IF c \in Lower
    THEN CASE c = "a" -> "A" [] c = "b" -> "B" [] c = "c" -> "C" [] c = "d" -> "D"
           [] c = "e" -> "E" [] c = "f" -> "F" [] c = "g" -> "G" [] c = "h" -> "H"
           [] c = "i" -> "I" [] c = "j" -> "J" [] c = "k" -> "K" [] c = "l" -> "L"
           [] c = "m" -> "M" [] c = "n" -> "N" [] c = "o" -> "O" [] c = "p" -> "P"
           [] c = "q" -> "Q" [] c = "r" -> "R" [] c = "s" -> "S" [] c = "t" -> "T"
           [] c = "u" -> "U" [] c = "v" -> "V" [] c = "w" -> "W" [] c = "x" -> "X"
           [] c = "y" -> "Y" [] c = "z" -> "Z"
    ELSE c

StrUpper(s) == [k \in 1 .. Len(s) |-> UpperOf(s[k])]

extract_pan_number_upper(text) ==
    LET u == StrUpper(text)
        i == PanSearch(u)
    IN  IF i = 0 THEN None ELSE SubSeq(u, i, i + 9)

extract_pan_number(text) ==
    LET i == PanSearch(text)
    IN  IF i = 0 THEN None ELSE SubSeq(text, i, i + 9)

(***************************************************************************)
(* kyc_input_checks                                                        *)
(***************************************************************************)
MSG_AADHAAR == "Aadhaar upload does not look like an Aadhaar card (Aadhaar number/DOB not detected)."
MSG_PAN     == "PAN upload does not look like a PAN card (PAN number not detected)."
MSG_NO_FACE == "Selfie upload must be a clear face photo (no face detected)."
MSG_SELFIE_DOC == "Selfie upload looks like an ID/document photo (text/ID patterns detected). Please upload a real face selfie."

\* the alphanumeric count from which a selfie text counts as a document
DocAlnumThreshold == 35

\* Python truthiness of an Optional[str]: None and "" are falsy
Falsy(x) == x = None \/ x = <<>>

_alnum_len(s) ==
    LET t == IF Falsy(s) THEN <<>> ELSE s
    IN  Len(SelectSeq(t, LAMBDA c : c \in Digit \cup Upper \cup Lower))

looks_like_pan_text(text) ==
    IF Falsy(text) THEN FALSE ELSE PanSearch(StrUpper(text)) # 0

looks_like_aadhaar_text(text) ==
    IF Falsy(text) THEN FALSE ELSE AadhaarSearch(text) # 0

\* selfie_looks_like_document searching the text as given, not upper-cased
selfie_looks_like_document_as_given(text) ==
    IF Falsy(text) THEN FALSE
    ELSE \/ PanSearch(text) # 0
         \/ looks_like_aadhaar_text(text)
         \/ _alnum_len(text) >= DocAlnumThreshold

selfie_looks_like_document(text) ==
    IF Falsy(text) THEN FALSE
    ELSE LET t == StrUpper(text)
         IN  \/ looks_like_pan_text(t)
             \/ looks_like_aadhaar_text(t)
             \/ _alnum_len(t) >= DocAlnumThreshold

\* the Aadhaar rule with "and" in place of "or"
AadhaarSlotBad_both(a_no, a_dob) == Falsy(a_no) /\ Falsy(a_dob)

AadhaarSlotBad(a_no, a_dob) == Falsy(a_no) \/ Falsy(a_dob)

\* the rules with the no-face rule returning early
validate_kyc_slots_short_circuit(a_no, a_dob, p_no, s_text, s_has_face) ==
    LET i1 == IF AadhaarSlotBad(a_no, a_dob) THEN <<MSG_AADHAAR>> ELSE <<>>
        i2 == IF Falsy(p_no) THEN Append(i1, MSG_PAN) ELSE i1
        i3 == IF ~s_has_face THEN Append(i2, MSG_NO_FACE) ELSE i2
    IN  IF ~s_has_face THEN i3
        ELSE IF selfie_looks_like_document(s_text)
             THEN Append(i3, MSG_SELFIE_DOC) ELSE i3

\* the rules of the two ID slots only, the selfie never examined
validate_kyc_slots_ids_only(a_no, a_dob, p_no, s_text, s_has_face) ==
    LET i1 == IF AadhaarSlotBad(a_no, a_dob) THEN <<MSG_AADHAAR>> ELSE <<>>
    IN  IF Falsy(p_no) THEN Append(i1, MSG_PAN) ELSE i1

validate_kyc_slots(a_no, a_dob, p_no, s_text, s_has_face) ==
    LET i1 == IF AadhaarSlotBad(a_no, a_dob) THEN <<MSG_AADHAAR>> ELSE <<>>
        i2 == IF Falsy(p_no) THEN Append(i1, MSG_PAN) ELSE i1
        i3 == IF ~s_has_face THEN Append(i2, MSG_NO_FACE) ELSE i2
        i4 == IF selfie_looks_like_document(s_text)
              THEN Append(i3, MSG_SELFIE_DOC) ELSE i3
    IN  i4

(***************************************************************************)
(* aadhar_validation: date of birth                                        *)
(***************************************************************************)
\* the most candidates _generate_date_candidates builds from substitutions
max_comb == 64
\* characters inspected on each side of a date by the fallback scan
WindowRadius == 20

DateSep == {"/", "-"}

Min(a, b) == IF a <= b THEN a ELSE b
Max(a, b) == IF a >= b THEN a ELSE b

RECURSIVE Pow2(_)
Pow2(n) == IF n = 0 THEN 1 ELSE 2 * Pow2(n - 1)

\* the least element of a non-empty set of integers
Least(S) == CHOOSE i \in S : \A j \in S : i <= j

\* the element of a one-element set; The({e(x) : x \in {v}}) is e with the
\* local x assigned the value of v once
The(S) == CHOOSE r \in S : TRUE

\* s.replace(a, b) for one-character a and b
ReplaceChar(s, a, b) == [k \in 1 .. Len(s) |-> IF s[k] = a THEN b ELSE s[k]]

\* s.split(c) for a one-character c
RECURSIVE Split(_, _)
Split(s, c) ==
    LET cuts == {k \in 1 .. Len(s) : s[k] = c}
    IN  IF cuts = {} THEN <<s>>
        ELSE LET k == Least(cuts)
             IN  <<SubSeq(s, 1, k - 1)>> \o Split(SubSeq(s, k + 1, Len(s)), c)

\* str.splitlines() up to empty lines, which no caller distinguishes
RECURSIVE SplitLines(_)
SplitLines(s) ==
    LET cuts == {k \in 1 .. Len(s) : s[k] \in {"\n", "\r", "\f"}}
    IN  IF s = <<>> THEN <<>>
        ELSE IF cuts = {} THEN <<s>>
        ELSE LET k == Least(cuts)
             IN  <<SubSeq(s, 1, k - 1)>> \o SplitLines(SubSeq(s, k + 1, Len(s)))

\* s contains the upper-cased word w at position i, ignoring case (re.I)
MatchesWordAt(s, i, w) ==
    /\ i + Len(w) - 1 <= Len(s)
    /\ StrUpper(SubSeq(s, i, i + Len(w) - 1)) = w

ContainsWord(s, w) == \E i \in 1 .. Len(s) : MatchesWordAt(s, i, w)

\* the alternatives of \b(dob|date of birth|dateofbirth|d\.o\.b)\b
DobLabels ==
    { <<"D", "O", "B">>,
      <<"D", "A", "T", "E", " ", "O", "F", " ", "B", "I", "R", "T", "H">>,
      <<"D", "A", "T", "E", "O", "F", "B", "I", "R", "T", "H">>,
      <<"D", ".", "O", ".", "B">> }

HasDobLabel(line) ==
    \E i \in 1 .. Len(line) : \E w \in DobLabels :
        /\ WordBoundary(line, i)
        /\ MatchesWordAt(line, i, w)
        /\ WordBoundary(line, i + Len(w))

\* the alternatives of issue|issued|printed|valid from|expiry|exp
NonBirthWords ==
    { <<"I", "S", "S", "U", "E">>,
      <<"I", "S", "S", "U", "E", "D">>,
      <<"P", "R", "I", "N", "T", "E", "D">>,
      <<"V", "A", "L", "I", "D", " ", "F", "R", "O", "M">>,
      <<"E", "X", "P", "I", "R", "Y">>,
      <<"E", "X", "P">> }

\* the window test without its continue: no date is ever skipped
HasNonBirthWord_never(window) == FALSE

HasNonBirthWord(window) == \E w \in NonBirthWords : ContainsWord(window, w)

\* the repl table of clean_possible_dob
ReplOf(c) ==
    CASE c \in {"o", "O"} -> "0"
      [] c \in {"b", "B"} -> "8"
      [] c \in {"s", "S"} -> "5"
      [] c \in {"e", "E"} -> "6"
      [] c \in {"l", "L", "i", "I"} -> "1"
      [] c \in {"z", "Z"} -> "2"
      [] OTHER -> c

clean_possible_dob(text) ==
    SelectSeq([k \in 1 .. Len(text) |-> ReplOf(text[k])],
              LAMBDA c : c \in Digit \cup {"/", "-", " "})

\* the amb table of _generate_date_candidates
AmbChoices(c) ==
    CASE c \in {"o", "O"} -> <<"0">>
      [] c \in {"b", "B"} -> <<"8">>
      [] c \in {"s", "S"} -> <<"5", "8">>
      [] c \in {"e", "E"} -> <<"8", "6">>
      [] c \in {"l", "L", "i", "I"} -> <<"1">>
      [] c \in {"z", "Z"} -> <<"2">>
      [] OTHER -> <<>>

\* the candidate of the k-th combination (k from 0) of itertools.product,
\* whose last position varies fastest, after clean_possible_dob
Candidate(raw_line, k) ==
    LET two  == {p \in 1 .. Len(raw_line) : Len(AmbChoices(raw_line[p])) = 2}
        n2   == Cardinality(two)
        rank(p) == Cardinality({q \in two : q <= p})
        pick(p) ==
            LET ch == AmbChoices(raw_line[p])
            IN  IF ch = <<>> THEN raw_line[p]
                ELSE IF Len(ch) = 1 THEN ch[1]
                ELSE ch[((k \div Pow2(n2 - rank(p))) % 2) + 1]
    IN  clean_possible_dob([p \in 1 .. Len(raw_line) |-> pick(p)])

\* _generate_date_candidates without the break at max_comb
_generate_date_candidates_uncapped(raw_line) ==
    LET amb == {p \in 1 .. Len(raw_line) : AmbChoices(raw_line[p]) # <<>>}
        two == {p \in amb : Len(AmbChoices(raw_line[p])) = 2}
        n   == Pow2(Cardinality(two))
    IN  IF amb = {} THEN <<clean_possible_dob(raw_line)>>
        ELSE [k \in 1 .. n |-> Candidate(raw_line, k - 1)]
             \o <<clean_possible_dob(raw_line)>>

_generate_date_candidates(raw_line) ==
    LET amb == {p \in 1 .. Len(raw_line) : AmbChoices(raw_line[p]) # <<>>}
        two == {p \in amb : Len(AmbChoices(raw_line[p])) = 2}
        n   == Min(Pow2(Cardinality(two)), max_comb)
    IN  IF amb = {} THEN <<clean_possible_dob(raw_line)>>
        ELSE [k \in 1 .. n |-> Candidate(raw_line, k - 1)]
             \o <<clean_possible_dob(raw_line)>>

\* date_pattern (\d{1,2}[/-]\d{1,2}[/-]?\d{4}): the ways to match, in the
\* order the regex engine tries them: <<day digits, month digits, second separator>>
DateOptions ==
    << <<2, 2, 1>>, <<2, 2, 0>>, <<2, 1, 1>>, <<2, 1, 0>>,
       <<1, 2, 1>>, <<1, 2, 0>>, <<1, 1, 1>>, <<1, 1, 0>> >>

DateFits(s, i, o) ==
    /\ AllIn(s, i, o[1], Digit)
    /\ At(s, i + o[1]) \in DateSep
    /\ AllIn(s, i + o[1] + 1, o[2], Digit)
    /\ (o[3] = 1 => At(s, i + o[1] + 1 + o[2]) \in DateSep)
    /\ AllIn(s, i + o[1] + 1 + o[2] + o[3], 4, Digit)

\* length of the date_pattern match at position i, or 0
DateMatchLen(s, i) ==
    LET ok == {n \in 1 .. 8 : DateFits(s, i, DateOptions[n])}
    IN  IF ok = {} THEN 0
        ELSE LET o == DateOptions[Least(ok)] IN o[1] + 1 + o[2] + o[3] + 4

\* start of the leftmost date_pattern match at or after position from, or 0
DateSearchFrom(s, from) ==
    LET hits == {i \in from .. Len(s) : DateMatchLen(s, i) > 0}
    IN  IF hits = {} THEN 0 ELSE Least(hits)

\* the regex of _normalize_date, (\d{1,2})[/-]?(\d{1,2})[/-]?(\d{4}):
\* option n is <<day digits, first separator, month digits, second separator>>
NormOption(n) ==
    << 2 - (((n - 1) \div 8) % 2), 1 - (((n - 1) \div 4) % 2),
       2 - (((n - 1) \div 2) % 2), 1 - ((n - 1) % 2) >>

NormFits(s, i, o) ==
    /\ AllIn(s, i, o[1], Digit)
    /\ (o[2] = 1 => At(s, i + o[1]) \in DateSep)
    /\ AllIn(s, i + o[1] + o[2], o[3], Digit)
    /\ (o[4] = 1 => At(s, i + o[1] + o[2] + o[3]) \in DateSep)
    /\ AllIn(s, i + o[1] + o[2] + o[3] + o[4], 4, Digit)

\* str.zfill(2) of a digit string
Zfill2(d) == IF Len(d) = 0 THEN <<"0", "0">> ELSE IF Len(d) = 1 THEN <<"0">> \o d ELSE d

\* str.strip() of blanks
RECURSIVE Strip(_)
Strip(s) ==
    IF s # <<>> /\ Head(s) \in Whitespace THEN Strip(Tail(s))
    ELSE IF s # <<>> /\ s[Len(s)] \in Whitespace THEN Strip(SubSeq(s, 1, Len(s) - 1))
    ELSE s

JoinDate(d, m, y) == Zfill2(d) \o <<"/">> \o Zfill2(m) \o <<"/">> \o y

\* the re.search branch of _normalize_date on the cleaned string ds
NormalizeByPattern(ds) ==
    The({ IF hits = {} THEN ds
          ELSE LET i == Least(hits)
                   o == NormOption(Least({n \in 1 .. 16 : NormFits(ds, i, NormOption(n))}))
                   a == i + o[1] + o[2]
                   b == a + o[3] + o[4]
               IN  JoinDate(SubSeq(ds, i, i + o[1] - 1), SubSeq(ds, a, a + o[3] - 1),
                            SubSeq(ds, b, b + 3)) :
          hits \in {{i \in 1 .. Len(ds) : \E n \in 1 .. 16 : NormFits(ds, i, NormOption(n))}} })

\* _normalize_date after the replace and the strip
NormalizeClean(ds) ==
    The({ IF Len(parts) = 3 THEN JoinDate(parts[1], parts[2], parts[3])
          ELSE IF Len(parts) = 2 /\ Len(parts[2]) = 6
          THEN JoinDate(parts[1], SubSeq(parts[2], 1, 2), SubSeq(parts[2], 3, 6))
          ELSE NormalizeByPattern(ds) :
          parts \in {Split(ds, "/")} })

_normalize_date(date_str) ==
    The({NormalizeClean(ds) : ds \in {Strip(ReplaceChar(date_str, "-", "/"))}})

DigitVal(c) ==
    CASE c = "0" -> 0 [] c = "1" -> 1 [] c = "2" -> 2 [] c = "3" -> 3 [] c = "4" -> 4
      [] c = "5" -> 5 [] c = "6" -> 6 [] c = "7" -> 7 [] c = "8" -> 8 [] c = "9" -> 9

\* int() of a digit string
RECURSIVE ToInt(_)
ToInt(d) ==
    IF d = <<>> THEN 0
    ELSE 10 * ToInt(SubSeq(d, 1, Len(d) - 1))
         + DigitVal(d[Len(d)])

IsDigits(d) == d # <<>> /\ \A k \in 1 .. Len(d) : d[k] \in Digit

\* the try block of extract_dob: split, int() and the range test
DayMonthInRange(norm) ==
    LET parts == Split(norm, "/")
    IN  /\ Len(parts) = 3
        /\ IsDigits(parts[1]) /\ IsDigits(parts[2])
        /\ 1 <= ToInt(parts[1]) /\ ToInt(parts[1]) <= 31
        /\ 1 <= ToInt(parts[2]) /\ ToInt(parts[2]) <= 12

\* the normalised first date of a candidate, or None
CandidateDate(cand) ==
    The({ IF i = 0 THEN None
          ELSE _normalize_date(SubSeq(cand, i, i + DateMatchLen(cand, i) - 1)) :
          i \in {DateSearchFrom(cand, 1)} })

\* the dates of the candidates of a labelled line, in candidate order
LineDates(line) ==
    The({ [k \in 1 .. Len(cands) |-> The({CandidateDate(cand) : cand \in {cands[k]}})] :
          cands \in {_generate_date_candidates(line)} })

\* the first candidate of a labelled line whose date passes the range test
LineDob(line) ==
    The({ LET good == {k \in 1 .. Len(dates) : dates[k] # None /\ DayMonthInRange(dates[k])}
          IN  IF good = {} THEN None ELSE dates[Least(good)] :
          dates \in {LineDates(line)} })

\* what the first loop of extract_dob finds on each line of the text
LabelledLines(text) ==
    The({ [k \in 1 .. Len(lines) |->
             The({ IF HasDobLabel(line) THEN LineDob(line) ELSE None :
                   line \in {lines[k]} })] :
          lines \in {SplitLines(text)} })

\* extract_dob, first loop: the DOB-labelled lines in order
LabelledDob(text) ==
    The({ LET good == {k \in 1 .. Len(found) : found[k] # None}
          IN  IF good = {} THEN None ELSE found[Least(good)] :
          found \in {LabelledLines(text)} })

\* extract_dob, second loop: finditer over the whole text from position from
RECURSIVE FallbackDob(_, _)
FallbackDob(text, from) ==
    The({ LET e == i + DateMatchLen(text, i) - 1
              window == SubSeq(text, Max(1, i - WindowRadius), Min(Len(text), e + WindowRadius))
          IN  IF i = 0 THEN None
              ELSE IF HasNonBirthWord(window) THEN FallbackDob(text, e + 1)
              ELSE _normalize_date(SubSeq(text, i, e)) :
          i \in {DateSearchFrom(text, from)} })

extract_dob(text) ==
    The({ IF labelled # None THEN labelled ELSE FallbackDob(text, 1) :
          labelled \in {LabelledDob(text)} })

\* which return statement of extract_dob produced the result
DobPath(text) ==
    IF LabelledDob(text) # None THEN "labelled"
    ELSE IF FallbackDob(text, 1) # None THEN "fallback"
    ELSE "none"

(***************************************************************************)
(* Recognised texts handed to the extractors                               *)
(***************************************************************************)
ID_SPACED == <<"1", "2", "3", "4", " ", "5", "6", "7", "8", " ", "9", "0", "1", "2">>
ID_BARE   == <<"1", "2", "3", "4", "5", "6", "7", "8", "9", "0", "1", "2">>

\* characters that may stand right before or after an ID group
PadChars  == {"x", "7", " ", "."}
\* what the recogniser may put between the three groups of four digits
GroupSeps == {<<>>, <<" ">>, <<"\t">>, <<"\n">>}

Pads == SeqsUpTo(PadChars, MaxPad)

AadhaarTexts ==
    { pre \o <<"1", "2", "3", "4">> \o s1 \o <<"5", "6", "7", "8">> \o s2 \o <<"9", "0", "1", "2">> \o post :
        pre \in Pads \cup {<<"0", "0", "0", "0", " ">>}, s1 \in GroupSeps, s2 \in GroupSeps, post \in Pads }

PAN_SAMPLE       == <<"N", "a", "m", "e", " ", "A", "B", "C", "D", "E", "1", "2", "3", "4", "F", " ", "P", "A", "N">>
PAN_SAMPLE_LOWER == <<"n", "a", "m", "e", " ", "a", "b", "c", "d", "e", "1", "2", "3", "4", "f", " ", "p", "a", "n">>

PanTokens ==
    { <<"A", "B", "C", "D", "E", "1", "2", "3", "4", "F">>, <<"a", "b", "c", "d", "e", "1", "2", "3", "4", "f">>, <<"Z", "Z", "Z", "Z", "Z", "9", "9", "9", "9", "Z">>,
      <<"X">>, <<" ">>, <<"1">> }

PanTexts ==
    {Concat(ts) : ts \in SeqsUpTo(PanTokens, MaxPanTokens)}
        \cup {PAN_SAMPLE, PAN_SAMPLE_LOWER}

DOB_SAMPLE == <<"D", "0", "B", ":", " ", "0", "2", "-", "O", "1", "-", "1", "9", "9", "5">>

DobTokens ==
    { <<"D", "O", "B", ":", " ">>,
      <<"D", "0", "B", ":", " ">>,
      <<"0", "2", "-", "O", "1", "-", "1", "9", "9", "5">>,
      <<"4", "5", "/", "1", "3", "/", "1", "9", "9", "0">>,
      <<"1", "/", "2", "/", "1", "9", "9", "0">>,
      <<"\n">> }

DobTexts == {Concat(ts) : ts \in SeqsUpTo(DobTokens, MaxDobTokens)}

ISSUED_SAMPLE == <<"I", "s", "s", "u", "e", "d", ":", " ", "0", "5", "/", "0", "6", "/", "2", "0", "2", "0">>
BIRTH_SAMPLE  == <<"0", "1", "/", "0", "2", "/", "1", "9", "9", "0">>

\* what may stand between the issue date and the unlabelled birth date
GapChars   == {" ", "\n", "x"}
IssueGaps  == SeqsUpTo(GapChars, MaxGap) \ {<<>>}
IssueTails == {<<>>, <<" ", "M", "a", "l", "e">>}

\* texts in which an issue date precedes an unlabelled birth date
IssuedTexts ==
    {ISSUED_SAMPLE \o gap \o BIRTH_SAMPLE \o tail : gap \in IssueGaps, tail \in IssueTails}

(***************************************************************************)
(* aadhar_validation.is_age_above_18                                       *)
(***************************************************************************)
IsLeap(y) == (y % 4 = 0 /\ y % 100 # 0) \/ y % 400 = 0

DaysInMonth(y, m) ==
    IF m = 2 THEN (IF IsLeap(y) THEN 29 ELSE 28)
    ELSE IF m \in {4, 6, 9, 11} THEN 30 ELSE 31

RECURSIVE DaysBeforeMonth(_, _)
DaysBeforeMonth(y, m) ==
    IF m = 1 THEN 0 ELSE DaysBeforeMonth(y, m - 1) + DaysInMonth(y, m - 1)

\* date.toordinal(): days since 0001-01-01, which is day 1
Ordinal(y, m, d) ==
    365 * (y - 1) + ((y - 1) \div 4) - ((y - 1) \div 100) + ((y - 1) \div 400)
        + DaysBeforeMonth(y, m) + d

\* the digits of a %d field: strptime also takes a blank in place of a leading zero
DayDigits(d) ==
    IF Len(d) = 2 /\ d[1] = " " /\ d[2] \in Digit \ {"0"} THEN <<d[2]>> ELSE d

\* datetime.strptime(s, "%d/%m/%Y") succeeds
ParsesAsDate(s) ==
    LET parts == Split(s, "/")
    IN  /\ Len(parts) = 3
        /\ IsDigits(DayDigits(parts[1])) /\ Len(parts[1]) <= 2
        /\ IsDigits(parts[2]) /\ Len(parts[2]) <= 2
        /\ IsDigits(parts[3]) /\ Len(parts[3]) = 4
        /\ ToInt(parts[3]) >= 1
        /\ ToInt(parts[2]) >= 1 /\ ToInt(parts[2]) <= 12
        /\ ToInt(DayDigits(parts[1])) >= 1
        /\ ToInt(DayDigits(parts[1])) <= DaysInMonth(ToInt(parts[3]), ToInt(parts[2]))

\* is_age_above_18 reading the three fields without strptime: any day and
\* month numbers are taken
is_age_above_18_no_calendar(dob_str, today) ==
    IF dob_str = None THEN FALSE
    ELSE LET parts == Split(ReplaceChar(dob_str, "-", "/"), "/")
         IN  IF ~(/\ Len(parts) = 3
                  /\ IsDigits(parts[1]) /\ IsDigits(parts[2]) /\ IsDigits(parts[3])
                  /\ ToInt(parts[2]) >= 1)
             THEN FALSE
             ELSE (today - Ordinal(ToInt(parts[3]), ToInt(parts[2]), ToInt(parts[1])))
                      \div 365 >= 18

\* is_age_above_18 counting calendar years: adult from the 18th birthday
is_age_above_18_by_birthday(dob_str, today) ==
    IF dob_str = None THEN FALSE
    ELSE LET dob_clean == ReplaceChar(dob_str, "-", "/")
             parts     == Split(dob_clean, "/")
         IN  IF ~ParsesAsDate(dob_clean) THEN FALSE
             ELSE today >= Ordinal(ToInt(parts[3]) + 18, ToInt(parts[2]),
                                   ToInt(DayDigits(parts[1])))

\* today is the ordinal of the date of datetime.now()
is_age_above_18(dob_str, today) ==
    IF dob_str = None THEN FALSE
    ELSE LET dob_clean == ReplaceChar(dob_str, "-", "/")
             parts     == Split(dob_clean, "/")
         IN  IF ~ParsesAsDate(dob_clean) THEN FALSE
             ELSE LET born == Ordinal(ToInt(parts[3]), ToInt(parts[2]),
                                      ToInt(DayDigits(parts[1])))
                      age  == (today - born) \div 365
                  IN  age >= 18

(***************************************************************************)
(* deepfake_detection                                                      *)
(* A metric is an integer counting 1/Scale, so 230.05 is 4601.  A score   *)
(* is an exact fraction [num, den]; the authenticity counts 1/Unit and    *)
(* the probability 1/Unit of a percent point.                             *)
(***************************************************************************)
Scale == 20
Unit  == 12000 * Scale

Abs(x) == IF x < 0 THEN -x ELSE x

\* bell_score without its min and max: the score is not clamped
bell_score_unclamped(x, center, width) == width - Abs(x - center)

\* bell_score(x, center, width) * width
bell_score(x, center, width) ==
    IF width <= 0 THEN 0 ELSE width - Min(Abs(x - center), width)

\* the four scores after their penalty, as fractions
sharpness_score(m) ==
    [num |-> bell_score(m.sharpness, 200 * Scale, 180 * Scale),
     den |-> 180 * Scale * (IF m.sharpness > 500 * Scale THEN 2 ELSE 1)]

noise_score(m) ==
    [num |-> bell_score(m.noise_level, 25 * Scale, 15 * Scale)
                * (IF m.noise_level < 12 * Scale THEN 2 ELSE 1),
     den |-> 15 * Scale * (IF m.noise_level < 12 * Scale THEN 5 ELSE 1)]

color_score(m) ==
    LET penalised == m.color_variance < 30 * Scale \/ m.color_variance > 70 * Scale
    IN  [num |-> bell_score(m.color_variance, 45 * Scale, 20 * Scale)
                    * (IF penalised THEN 3 ELSE 1),
         den |-> 20 * Scale * (IF penalised THEN 5 ELSE 1)]

artifact_score(m) ==
    [num |-> bell_score(m.artifact_score, 8 * Scale, 10 * Scale),
     den |-> 10 * Scale * (IF m.artifact_score < 3 * Scale THEN 2 ELSE 1)]

\* consistency_score is used as it comes
consistency_score(m) == [num |-> m.consistency_score, den |-> Scale]

\* weight (percent) * score, in 1/Unit; every den divides Unit * pct / 100
Weighted(pct, frac) == ((Unit * pct) \div (100 * frac.den)) * frac.num

\* authenticity of calculate_deepfake_probability, in 1/Unit
Authenticity(m) ==
    Weighted(15, sharpness_score(m)) + Weighted(20, noise_score(m))
        + Weighted(30, artifact_score(m)) + Weighted(25, consistency_score(m))
        + Weighted(10, color_score(m))

\* the authenticity returned as if it were the probability
calculate_deepfake_probability_not_inverted(m) == Authenticity(m) * 100

\* deepfake_probability, in 1/Unit of a percent point: (1 - authenticity) * 100
calculate_deepfake_probability(m) == (Unit - Authenticity(m)) * 100

\* round(num / den, 2) in hundredths, ties to even
Round2(num, den) ==
    LET rest == (num % den) * 100
        q    == (num \div den) * 100 + rest \div den
        r    == rest % den
    IN  IF 2 * r > den \/ (2 * r = den /\ q % 2 = 1) THEN q + 1 ELSE q

\* the metrics of an image cv2 cannot read
UnreadableMetrics ==
    [sharpness |-> 0, noise_level |-> 0, artifact_score |-> 0,
     consistency_score |-> 0, color_variance |-> 0]

\* detect_deepfake with >= in place of > at the threshold
detect_deepfake_at_least(exists, m) ==
    IF ~exists
    THEN [error |-> "Image file not found", is_deepfake |-> "None", confidence |-> 0,
          authenticity_score |-> 0, status |-> "Unknown"]
    ELSE LET prob  == calculate_deepfake_probability(m)
             fake  == prob >= 45 * Unit
             conf  == IF fake THEN prob ELSE 100 * Unit - prob
         IN  [error |-> "", is_deepfake |-> IF fake THEN "True" ELSE "False",
              confidence |-> Round2(conf, Unit),
              authenticity_score |-> Round2(100 * Unit - prob, Unit),
              status |-> IF fake THEN "SUSPICIOUS - Potential Deepfake"
                         ELSE "AUTHENTIC - Real Image"]

\* detect_deepfake: exists is image_path.exists()
detect_deepfake(exists, m) ==
    IF ~exists
    THEN [error |-> "Image file not found", is_deepfake |-> "None", confidence |-> 0,
          authenticity_score |-> 0, status |-> "Unknown"]
    ELSE LET prob  == calculate_deepfake_probability(m)
             fake  == prob > 45 * Unit
             conf  == IF fake THEN prob ELSE 100 * Unit - prob
         IN  [error |-> "", is_deepfake |-> IF fake THEN "True" ELSE "False",
              confidence |-> Round2(conf, Unit),
              authenticity_score |-> Round2(100 * Unit - prob, Unit),
              status |-> IF fake THEN "SUSPICIOUS - Potential Deepfake"
                         ELSE "AUTHENTIC - Real Image"]

\* bool() of the is_deepfake entry
PyBool(x) == x = "True"

(***************************************************************************)
(* face_match_selfie.match_faces                                           *)
(* cos is the cosine similarity in 1/100000, the reported cosine in       *)
(* 1/10000 (round(cos, 4)); similarity_percent is in                      *)
(* hundredths of a percent.                                                *)
(***************************************************************************)
\* match_faces that looks for a face in the PAN image only
match_faces_pan_only(pan_has_face, selfie_face, cos) ==
    IF ~pan_has_face
    THEN [failed |-> TRUE, error |-> "No face detected in PAN image",
          match |-> FALSE, similarity_percent |-> 0, cosine |-> 0]
    ELSE [failed |-> FALSE, error |-> "",
          match |-> cos >= 60000,
          similarity_percent |-> Round2(cos + 100000, 2000),
          cosine |-> Round2(cos, 1000)]

match_faces(pan_has_face, selfie_face, cos) ==
    IF ~pan_has_face
    THEN [failed |-> TRUE, error |-> "No face detected in PAN image",
          match |-> FALSE, similarity_percent |-> 0, cosine |-> 0]
    ELSE IF ~selfie_face
    THEN [failed |-> TRUE, error |-> "No face detected in Selfie",
          match |-> FALSE, similarity_percent |-> 0, cosine |-> 0]
    ELSE [failed |-> FALSE, error |-> "",
          match |-> cos >= 60000,
          similarity_percent |-> Round2(cos + 100000, 2000),
          cosine |-> Round2(cos, 1000)]

(***************************************************************************)
(* final_kyc_api: upload validation                                        *)
(***************************************************************************)
LowerOf(c) == IF c \in Upper THEN CHOOSE l \in Lower : UpperOf(l) = c ELSE c

StrLower(s) == [k \in 1 .. Len(s) |-> LowerOf(s[k])]

StartsWith(s, prefix) == Len(s) >= Len(prefix) /\ SubSeq(s, 1, Len(prefix)) = prefix

_ALLOWED_EXTS == {<<"j", "p", "g">>, <<"j", "p", "e", "g">>, <<"p", "n", "g">>}

_file_ext(filename) ==
    IF Falsy(filename) \/ "." \notin {filename[k] : k \in 1 .. Len(filename)} THEN <<>>
    ELSE LET parts == Split(filename, ".")
         IN  Strip(StrLower(parts[Len(parts)]))

\* _validate_image_bytes testing the extension only
_validate_image_bytes_ext_only(upload) ==
    LET ext == _file_ext(upload.filename)
    IN  IF ext \notin _ALLOWED_EXTS
        THEN [message |-> "Invalid file format", ext |-> ext]
        ELSE [message |-> "", ext |-> ext]

\* the message of the HTTPException raised for an upload, or "" with the extension
_validate_image_bytes(upload) ==
    LET ext == _file_ext(upload.filename)
    IN  IF ext \notin _ALLOWED_EXTS
        THEN [message |-> "Invalid file format", ext |-> ext]
        ELSE IF ~Falsy(upload.content_type)
                /\ ~StartsWith(StrLower(upload.content_type), <<"i", "m", "a", "g", "e", "/">>)
        THEN [message |-> "Invalid content type", ext |-> ext]
        ELSE IF ~upload.decodable
        THEN [message |-> "Corrupted or non-image file", ext |-> ext]
        ELSE [message |-> "", ext |-> ext]

\* the uploads a client may send
Filenames    == {<<"a", ".", "j", "p", "g">>, <<"a", ".", "b", ".", "P", "N", "G">>, <<"a", ".", "p", "d", "f">>, <<"j", "p", "g">>}
ContentTypes == {None, <<"i", "m", "a", "g", "e", "/", "p", "n", "g">>, <<"t", "e", "x", "t", "/", "p", "l", "a", "i", "n">>}
Uploads ==
    [filename : Filenames, content_type : ContentTypes, decodable : BOOLEAN]

(***************************************************************************)
(* final_kyc_api: the decision and the slot gate                           *)
(***************************************************************************)
VERIFIED == "VERIFIED"
REVIEW   == "REVIEW"
REJECTED_DEEPFAKE == "REJECTED - DEEPFAKE DETECTED"

\* the decision with >= in place of >
final_status_at_least(sim, age_ok, fake) ==
    LET first == IF sim >= 7500 /\ age_ok /\ ~fake THEN VERIFIED ELSE REVIEW
    IN  IF fake THEN REJECTED_DEEPFAKE ELSE first

\* the decision without the deepfake override
final_status_no_override(sim, age_ok, fake) ==
    IF sim > 7500 /\ age_ok /\ ~fake THEN VERIFIED ELSE REVIEW

\* sim is similarity_percent in hundredths
final_status(sim, age_ok, fake) ==
    LET first == IF sim > 7500 /\ age_ok /\ ~fake THEN VERIFIED ELSE REVIEW
    IN  IF fake THEN REJECTED_DEEPFAKE ELSE first

\* the gate that lets every request through
HasIssues_never(iss) == FALSE

\* "if issues:" after validate_kyc_slots
HasIssues(iss) == iss # <<>>

\* the similarity counted only when the faces match
GetSimilarity_if_match(fr) ==
    IF fr.failed \/ ~fr.match THEN 0 ELSE fr.similarity_percent

\* face_result.get("similarity_percent", 0)
GetSimilarity(fr) == IF fr.failed THEN 0 ELSE fr.similarity_percent

(***************************************************************************)
(* email_notify.send_kyc_email and save_kyc.save_kyc                       *)
(***************************************************************************)
\* ^[^@\s]+@[^@\s]+\.[^@\s]+$ on the stripped address
EmailShapeOk(to_email) ==
    LET e   == Strip(to_email)
        ats == {k \in 1 .. Len(e) : e[k] = "@"}
    IN  /\ \A k \in 1 .. Len(e) : e[k] \notin Whitespace
        /\ Cardinality(ats) = 1
        /\ LET a == Least(ats)
           IN  a > 1 /\ \E k \in (a + 2) .. (Len(e) - 1) : e[k] = "."

send_kyc_email(to_email, smtp_configured, smtp_ok) ==
    IF Falsy(to_email) \/ ~EmailShapeOk(to_email)
    THEN [sent |-> FALSE, detail |-> "Invalid destination email"]
    ELSE IF ~smtp_configured
    THEN [sent |-> FALSE, detail |-> "SMTP is not configured"]
    ELSE IF ~smtp_ok
    THEN [sent |-> FALSE, detail |-> "Email send failed"]
    ELSE [sent |-> TRUE, detail |-> ""]

Emails == {<<"a", "@", "b", ".", "c", "o">>, <<"a", ".", "b">>}

(***************************************************************************)
(* What the collaborators of verify_kyc may deliver                        *)
(***************************************************************************)
AadhaarOcrTexts ==
    { <<"1", "2", "3", "4", " ", "5", "6", "7", "8", " ", "9", "0", "1", "2", "\n", "D", "O", "B", ":", " ", "0", "2", "-", "O", "1", "-", "1", "9", "9", "5">>,
      <<"1", "2", "3", "4", "5", "6", "7", "8", "9", "0", "1", "2", " ", "D", "O", "B", ":", " ", "1", "/", "2", "/", "2", "0", "1", "5">>,
      <<"D", "O", "B", ":", " ", "1", "/", "2", "/", "1", "9", "9", "0">>,
      ID_SPACED,
      <<"1", "2", "3", "4", " ", "5", "6", "7", "8", " ", "9", "0", "1", "2", " ", "4", "5", "/", "1", "3", "/", "1", "9", "9", "0">> }

PanOcrTexts == {PAN_SAMPLE, PAN_SAMPLE_LOWER}

SelfieOcrTexts == {<<>>, <<"h", "i">>, <<"a", "b", "c", "d", "e", "1", "2", "3", "4", "f">>}

\* the dates on which the request may run
Todays == {Ordinal(2026, 11, 3), Ordinal(2033, 2, 1)}

MetricsSeen ==
    [sharpness : {200 * Scale, 600 * Scale}, noise_level : {25 * Scale, 5 * Scale},
     artifact_score : {8 * Scale, 0}, consistency_score : {Scale, 0},
     color_variance : {45 * Scale}]

Cosines == {-100000, 50000, 50020, 59995, 60000, 100000}

NoDeepfakeResult ==
    [error |-> "not run", is_deepfake |-> "None", confidence |-> 0,
     authenticity_score |-> 0, status |-> "Unknown"]

NoFaceResult ==
    [failed |-> TRUE, error |-> "not run", match |-> FALSE,
     similarity_percent |-> 0, cosine |-> 0]

NoEmailResult == [sent |-> FALSE, detail |-> "not run"]

NoReply == [code |-> 0, message |-> "", final_status |-> ""]

\* the locals of a request that has not started
LocalsAt(start) ==
    /\ pc = start
    /\ ran = <<>>
    /\ exts = None
    /\ files_written = 0
    /\ selfie_file = "none"
    /\ aadhaar_no = None /\ dob = None /\ age_status = FALSE
    /\ pan_no = None /\ selfie_text = <<>> /\ selfie_has_face = FALSE
    /\ issues = <<>>
    /\ deepfake_result = NoDeepfakeResult
    /\ face_result = NoFaceResult
    /\ score = 0 /\ is_deepfake = FALSE /\ status = ""
    /\ storage = <<>>
    /\ email_result = NoEmailResult
    /\ http = NoReply

\* a request on its own: no other request, nothing under uploads/
RequestAt(start) ==
    /\ LocalsAt(start)
    /\ clock = 0
    /\ uploads_dir = <<>>
    /\ requests = <<>>

(***************************************************************************)
(* final_kyc_api.verify_kyc, one action per step of its body               *)
(***************************************************************************)
Raise400(message) == [code |-> 400, message |-> message, final_status |-> ""]

\* lines 127-137: the three _validate_image_bytes calls in order; message is
\* that of the first failure, "" when all three pass
ValidateThree(a, p, s) ==
    LET ra == _validate_image_bytes(a)
        rp == _validate_image_bytes(p)
        rs == _validate_image_bytes(s)
    IN  [message |-> IF ra.message # "" THEN ra.message
                     ELSE IF rp.message # "" THEN rp.message
                     ELSE rs.message,
         exts |-> <<ra.ext, rp.ext, rs.ext>>]

\* the three _validate_image_bytes calls; the first failure raises
ValidateUploads ==
    /\ pc = "validate_uploads"
    /\ \E a \in Uploads, p \in Uploads, s \in Uploads :
         \E checked \in {ValidateThree(a, p, s)} :
             IF checked.message # ""
             THEN /\ http' = Raise400(checked.message)
                  /\ pc' = "raised"
                  /\ done' = TRUE
                  /\ exts' = exts
             ELSE /\ exts' = checked.exts
                  /\ pc' = "write_files"
                  /\ UNCHANGED <<http, done>>
    /\ ran' = Append(ran, "validate_uploads")
    /\ UNCHANGED <<conVars, selfie_file>>
    /\ UNCHANGED <<fn, arg, ret, files_written, aadhaar_no, dob, age_status, pan_no,
                   selfie_text, selfie_has_face, issues, deepfake_result, face_result,
                   score, is_deepfake, status, storage, email_result>>

\* the three uploads are written under uploads/
WriteFiles ==
    /\ pc = "write_files"
    /\ files_written' = 3
    /\ selfie_file' = "ok"
    /\ pc' = "ocr_aadhaar"
    /\ ran' = Append(ran, "write_files")
    /\ UNCHANGED conVars
    /\ UNCHANGED <<fn, arg, ret, done, exts, aadhaar_no, dob, age_status, pan_no,
                   selfie_text, selfie_has_face, issues, deepfake_result, face_result,
                   score, is_deepfake, status, storage, email_result, http>>

\* extract_text on the Aadhaar upload, then the three field extractions
OcrAadhaar ==
    /\ pc = "ocr_aadhaar"
    /\ \E aadhar_text \in AadhaarOcrTexts, today \in Todays :
         /\ aadhaar_no' = extract_aadhaar_number(aadhar_text)
         /\ \E found \in {extract_dob(aadhar_text)} :
              /\ dob' = found
              /\ age_status' = IF ~Falsy(found) THEN is_age_above_18(found, today)
                               ELSE FALSE
    /\ pc' = "ocr_pan"
    /\ ran' = Append(ran, "ocr_aadhaar")
    /\ UNCHANGED <<conVars, selfie_file>>
    /\ UNCHANGED <<fn, arg, ret, done, exts, files_written, pan_no, selfie_text,
                   selfie_has_face, issues, deepfake_result, face_result, score,
                   is_deepfake, status, storage, email_result, http>>

OcrPan ==
    /\ pc = "ocr_pan"
    /\ \E pan_text \in PanOcrTexts : pan_no' = extract_pan_number(pan_text)
    /\ pc' = "ocr_selfie"
    /\ ran' = Append(ran, "ocr_pan")
    /\ UNCHANGED <<conVars, selfie_file>>
    /\ UNCHANGED <<fn, arg, ret, done, exts, files_written, aadhaar_no, dob,
                   age_status, selfie_text, selfie_has_face, issues, deepfake_result,
                   face_result, score, is_deepfake, status, storage, email_result,
                   http>>

\* extract_text and get_robust_encoding on the selfie; cv2.imread gives
\* None for a file that is missing or does not decode
OcrSelfie ==
    /\ pc = "ocr_selfie"
    /\ IF selfie_file = "ok"
       THEN \E text \in SelfieOcrTexts, has_face \in BOOLEAN :
                /\ selfie_text' = text
                /\ selfie_has_face' = has_face
       ELSE /\ selfie_text' = <<>>
            /\ selfie_has_face' = FALSE
    /\ pc' = "check_slots"
    /\ ran' = Append(ran, "ocr_selfie")
    /\ UNCHANGED <<conVars, selfie_file>>
    /\ UNCHANGED <<fn, arg, ret, done, exts, files_written, aadhaar_no, dob,
                   age_status, pan_no, issues, deepfake_result, face_result, score,
                   is_deepfake, status, storage, email_result, http>>

\* validate_kyc_slots and the HTTPException raised on any issue
CheckSlots ==
    /\ pc = "check_slots"
    /\ issues' = validate_kyc_slots(aadhaar_no, dob, pan_no, selfie_text, selfie_has_face)
    /\ IF HasIssues(issues')
       THEN /\ http' = Raise400("Invalid / mismatched uploads")
            /\ pc' = "raised"
            /\ done' = TRUE
       ELSE /\ pc' = "detect_deepfake"
            /\ UNCHANGED <<http, done>>
    /\ ran' = Append(ran, "check_slots")
    /\ UNCHANGED <<conVars, selfie_file>>
    /\ UNCHANGED <<fn, arg, ret, exts, files_written, aadhaar_no, dob, age_status,
                   pan_no, selfie_text, selfie_has_face, deepfake_result, face_result,
                   score, is_deepfake, status, storage, email_result>>

\* detect_deepfake(selfie_path) on the file as it is on disk now
DetectDeepfake ==
    /\ pc = "detect_deepfake"
    /\ \E m \in MetricsSeen :
         deepfake_result' =
             detect_deepfake(selfie_file # "missing",
                             IF selfie_file = "ok" THEN m ELSE UnreadableMetrics)
    /\ pc' = "match_faces"
    /\ ran' = Append(ran, "detect_deepfake")
    /\ UNCHANGED <<conVars, selfie_file>>
    /\ UNCHANGED <<fn, arg, ret, done, exts, files_written, aadhaar_no, dob,
                   age_status, pan_no, selfie_text, selfie_has_face, issues,
                   face_result, score, is_deepfake, status, storage, email_result,
                   http>>

\* match_faces(pan_path, selfie_path) encodes both files again
MatchFaces ==
    /\ pc = "match_faces"
    /\ \E pan_has_face \in BOOLEAN, cos \in Cosines :
         face_result' = match_faces(pan_has_face,
                                    selfie_has_face /\ selfie_file = "ok", cos)
    /\ pc' = "decide"
    /\ ran' = Append(ran, "match_faces")
    /\ UNCHANGED <<conVars, selfie_file>>
    /\ UNCHANGED <<fn, arg, ret, done, exts, files_written, aadhaar_no, dob,
                   age_status, pan_no, selfie_text, selfie_has_face, issues,
                   deepfake_result, score, is_deepfake, status, storage, email_result,
                   http>>

\* lines 192-199: score, is_deepfake and status
Decide ==
    /\ pc = "decide"
    /\ score' = GetSimilarity(face_result)
    /\ is_deepfake' = PyBool(deepfake_result.is_deepfake)
    /\ status' = final_status(GetSimilarity(face_result), age_status,
                              PyBool(deepfake_result.is_deepfake))
    /\ pc' = "save_kyc"
    /\ ran' = Append(ran, "decide")
    /\ UNCHANGED <<conVars, selfie_file>>
    /\ UNCHANGED <<fn, arg, ret, done, exts, files_written, aadhaar_no, dob,
                   age_status, pan_no, selfie_text, selfie_has_face, issues,
                   deepfake_result, face_result, storage, email_result, http>>

\* save_kyc called for VERIFIED requests only
SaveKyc_verified_only ==
    /\ pc = "save_kyc"
    /\ storage' = IF status = VERIFIED
                  THEN Append(storage,
                              [aadhaar |-> aadhaar_no, pan |-> pan_no, dob |-> dob,
                               age_verified |-> age_status, face_score |-> score,
                               kyc_status |-> status, email |-> arg])
                  ELSE storage
    /\ pc' = "send_email"
    /\ ran' = Append(ran, "save_kyc")
    /\ UNCHANGED <<conVars, selfie_file>>
    /\ UNCHANGED <<fn, arg, ret, done, exts, files_written, aadhaar_no, dob,
                   age_status, pan_no, selfie_text, selfie_has_face, issues,
                   deepfake_result, face_result, score, is_deepfake, status,
                   email_result, http>>

\* save_kyc: users.insert_one of the record
SaveKyc ==
    /\ pc = "save_kyc"
    /\ storage' = Append(storage,
                         [aadhaar |-> aadhaar_no, pan |-> pan_no, dob |-> dob,
                          age_verified |-> age_status, face_score |-> score,
                          kyc_status |-> status, email |-> arg])
    /\ pc' = "send_email"
    /\ ran' = Append(ran, "save_kyc")
    /\ UNCHANGED <<conVars, selfie_file>>
    /\ UNCHANGED <<fn, arg, ret, done, exts, files_written, aadhaar_no, dob,
                   age_status, pan_no, selfie_text, selfie_has_face, issues,
                   deepfake_result, face_result, score, is_deepfake, status,
                   email_result, http>>

\* send_kyc_email, then the response is returned
SendEmail ==
    /\ pc = "send_email"
    /\ \E smtp_configured \in BOOLEAN, smtp_ok \in BOOLEAN :
         email_result' = send_kyc_email(arg, smtp_configured, smtp_ok)
    /\ http' = [code |-> 200, message |-> "", final_status |-> status]
    /\ pc' = "done"
    /\ done' = TRUE
    /\ ran' = Append(ran, "send_email")
    /\ UNCHANGED <<conVars, selfie_file>>
    /\ UNCHANGED <<fn, arg, ret, exts, files_written, aadhaar_no, dob, age_status,
                   pan_no, selfie_text, selfie_has_face, issues, deepfake_result,
                   face_result, score, is_deepfake, status, storage>>

\* the selfie upload is truncated or removed under uploads/ while the
\* request runs; a file that is lost does not come back
DamageSelfie ==
    /\ pc \in {"ocr_aadhaar", "ocr_pan", "ocr_selfie", "check_slots",
                "detect_deepfake", "match_faces"}
    /\ \/ selfie_file = "ok" /\ selfie_file' \in {"unreadable", "missing"}
       \/ selfie_file = "unreadable" /\ selfie_file' = "missing"
    /\ UNCHANGED conVars
    /\ UNCHANGED <<fn, arg, ret, done, pc, ran, exts, files_written, aadhaar_no, dob,
                   age_status, pan_no, selfie_text, selfie_has_face, issues,
                   deepfake_result, face_result, score, is_deepfake, status, storage,
                   email_result, http>>

Init ==
    /\ fn = "verify_kyc"
    /\ arg \in Emails
    /\ ret = None
    /\ done = FALSE
    /\ RequestAt("validate_uploads")

Next ==
    \/ ValidateUploads
    \/ WriteFiles
    \/ OcrAadhaar
    \/ OcrPan
    \/ OcrSelfie
    \/ CheckSlots
    \/ DetectDeepfake
    \/ MatchFaces
    \/ Decide
    \/ SaveKyc
    \/ SendEmail
    \/ DamageSelfie

Spec == Init /\ [][Next]_vars

(***************************************************************************)
(* The extractors and the slot validator called on their own: the         *)
(* argument is drawn in the initial state and one action applies the      *)
(* function.                                                               *)
(***************************************************************************)
Called(name, inputs) ==
    /\ fn = name
    /\ arg \in inputs
    /\ ret = None
    /\ done = FALSE
    /\ RequestAt("idle")

CallExtractAadhaar ==
    /\ fn = "extract_aadhaar_number" /\ ~done
    /\ ret' = extract_aadhaar_number(arg)
    /\ done' = TRUE
    /\ UNCHANGED <<fn, arg, reqVars, conVars>>

InitAadhaar == Called("extract_aadhaar_number", AadhaarTexts)
SpecAadhaar == InitAadhaar /\ [][CallExtractAadhaar]_vars

CallExtractPan ==
    /\ fn = "extract_pan_number" /\ ~done
    /\ ret' = extract_pan_number(arg)
    /\ done' = TRUE
    /\ UNCHANGED <<fn, arg, reqVars, conVars>>

InitPan == Called("extract_pan_number", PanTexts)
SpecPan == InitPan /\ [][CallExtractPan]_vars

\* ret is the returned date together with the return statement that produced it
CallExtractDob ==
    /\ fn = "extract_dob" /\ ~done
    /\ ret' = [value |-> extract_dob(arg), path |-> DobPath(arg)]
    /\ done' = TRUE
    /\ UNCHANGED <<fn, arg, reqVars, conVars>>

InitDob == Called("extract_dob", DobTexts \cup IssuedTexts)
SpecDob == InitDob /\ [][CallExtractDob]_vars

\* the upload validation of verify_kyc on three given uploads
UploadArgs == [aadhaar : Uploads, pan : Uploads, selfie : Uploads]

CallValidateThree ==
    /\ fn = "validate_uploads" /\ ~done
    /\ ret' = ValidateThree(arg.aadhaar, arg.pan, arg.selfie)
    /\ done' = TRUE
    /\ UNCHANGED <<fn, arg, reqVars, conVars>>

InitUploads == Called("validate_uploads", UploadArgs)

\* the validation on its own or as the first step of a request
InitUploadsOrRequest == InitUploads \/ Init
NextUploadsOrRequest == CallValidateThree \/ Next
SpecUploadsOrRequest == InitUploadsOrRequest /\ [][NextUploadsOrRequest]_vars

\* lines for _generate_date_candidates: every short line over a few
\* characters, and runs of two-choice characters up to and beyond the cap
LineChars == {"s", "E", "o", "1", "/", "x"}
ShortLines == SeqsUpTo(LineChars, MaxLineLen)
LongLines ==
    { [k \in 1 .. n |-> IF k % 2 = 1 THEN "s" ELSE "E"] : n \in 4 .. MaxAmbiguous }
        \cup { <<"D", "O", "B", " ">> \o [k \in 1 .. n |-> "S"] : n \in 4 .. MaxAmbiguous }

CallGenerateDateCandidates ==
    /\ fn = "_generate_date_candidates" /\ ~done
    /\ ret' = _generate_date_candidates(arg)
    /\ done' = TRUE
    /\ UNCHANGED <<fn, arg, reqVars, conVars>>

InitCandidates == Called("_generate_date_candidates", ShortLines \cup LongLines)
SpecCandidates == InitCandidates /\ [][CallGenerateDateCandidates]_vars

\* the arguments is_age_above_18 is called with: day, month and year fields
\* joined by / or -, and strings that are no date at all
DayFields   == {<<"0", "1">>, <<"1">>, <<" ", "1">>, <<"2", "9">>, <<"3", "1">>, <<"0", "0">>, <<"9", "9">>}
MonthFields == {<<"0", "1">>, <<"2">>, <<"0", "2">>, <<"1", "2">>, <<"1", "3">>, <<"0", "0">>, <<"9", "9">>}
YearFields  == {<<"1", "9", "0", "0">>, <<"1", "9", "9", "0">>, <<"2", "0", "0", "0">>, <<"2", "0", "2", "0">>,
                <<"2", "0", "9", "9">>, <<"1", "9", "9">>, <<"0", "0", "0", "0">>}

AgeStrings ==
    {d \o <<sep>> \o m \o <<sep>> \o y :
        d \in DayFields, m \in MonthFields, y \in YearFields, sep \in DateSep}
        \cup {None, <<>>, <<"n", "o", "t", "-", "a", "-", "d", "a", "t", "e">>,
              <<"0", "1", "/", "0", "2", "/", "1", "9", "9", "0", " ">>,
              <<"0", "1", "/", "/", "1", "9", "9", "0">>}

\* the dates of datetime.now(): around 6570 days after 01/01/2000, and later
AgeTodays ==
    {Ordinal(2000, 1, 1) + k : k \in {-1, 0, 6569, 6570, 6571}}
        \cup {Ordinal(2018, 1, 1), Ordinal(2018, 1, 2), Ordinal(2026, 11, 3)}

AgeArgs == [dob_str : AgeStrings, today : AgeTodays]

CallIsAgeAbove18 ==
    /\ fn = "is_age_above_18" /\ ~done
    /\ ret' = is_age_above_18(arg.dob_str, arg.today)
    /\ done' = TRUE
    /\ UNCHANGED <<fn, arg, reqVars, conVars>>

InitAge == Called("is_age_above_18", AgeArgs)
SpecAge == InitAge /\ [][CallIsAgeAbove18]_vars

\* is_age_above_18 called on its own or by a request of verify_kyc
InitAgeOrRequest == InitAge \/ Init
NextAgeOrRequest == CallIsAgeAbove18 \/ Next
SpecAgeOrRequest == InitAgeOrRequest /\ [][NextAgeOrRequest]_vars

\* the metrics detect_deepfake may measure: the centres, the penalty
\* thresholds and the ends of the bells, and values next to them
SharpnessSeen   == {0, 20 * Scale, 200 * Scale, 200 * Scale + 1, 230 * Scale - 1, 230 * Scale,
                    230 * Scale + 1, 380 * Scale, 500 * Scale, 500 * Scale + 1, 1000 * Scale}
NoiseSeen       == {0, 5 * Scale, 12 * Scale - 1, 12 * Scale, 25 * Scale, 40 * Scale, 100 * Scale}
ArtifactSeen    == {0, 3 * Scale - 1, 3 * Scale, 8 * Scale, 18 * Scale, 50 * Scale}
ConsistencySeen == {0, 1, Scale \div 2, Scale}
ColorSeen       == {0, 30 * Scale - 1, 30 * Scale, 45 * Scale, 65 * Scale, 70 * Scale,
                    70 * Scale + 1, 100 * Scale}

MetricArgs ==
    [sharpness : SharpnessSeen, noise_level : NoiseSeen, artifact_score : ArtifactSeen,
     consistency_score : ConsistencySeen, color_variance : ColorSeen]

\* ret holds the scores, the unrounded probability and the returned verdict
CallDetectDeepfake ==
    /\ fn = "detect_deepfake" /\ ~done
    /\ ret' = [scores |-> <<sharpness_score(arg), noise_score(arg), artifact_score(arg),
                            consistency_score(arg), color_score(arg)>>,
               authenticity |-> Authenticity(arg),
               probability |-> calculate_deepfake_probability(arg),
               verdict |-> detect_deepfake(TRUE, arg)]
    /\ done' = TRUE
    /\ UNCHANGED <<fn, arg, reqVars, conVars>>

InitDeepfake == Called("detect_deepfake", MetricArgs)
SpecDeepfake == InitDeepfake /\ [][CallDetectDeepfake]_vars

\* selfie texts: runs of letters around the threshold, with and without
\* blanks, and texts holding ID patterns
RECURSIVE Letters(_)
Letters(n) == IF n = 0 THEN <<>> ELSE Append(Letters(n - 1), "a")

SlotSelfieTexts ==
    {Letters(n) : n \in 0 .. MaxSelfieLen}
        \cup {Letters(n) \o <<" ", ".">> \o Letters(1) : n \in 0 .. MaxSelfieLen}
        \cup {PAN_SAMPLE_LOWER, ID_SPACED, ID_BARE}

SlotArgs ==
    [aadhaar_no : {None, <<>>, ID_BARE},
     dob : {None, <<>>, <<"0", "2", "/", "0", "1", "/", "1", "9", "9", "5">>},
     pan_no : {None, <<"A", "B", "C", "D", "E", "1", "2", "3", "4", "F">>},
     selfie_text : SlotSelfieTexts,
     selfie_has_face : BOOLEAN]

CallValidateSlots ==
    /\ fn = "validate_kyc_slots" /\ ~done
    /\ ret' = validate_kyc_slots(arg.aadhaar_no, arg.dob, arg.pan_no,
                                 arg.selfie_text, arg.selfie_has_face)
    /\ done' = TRUE
    /\ UNCHANGED <<fn, arg, reqVars, conVars>>

InitSlots == Called("validate_kyc_slots", SlotArgs)
SpecSlots == InitSlots /\ [][CallValidateSlots]_vars

(***************************************************************************)
(* Properties                                                              *)
(***************************************************************************)
Ran(step) == \E k \in 1 .. Len(ran) : ran[k] = step

AfterSlotCheck == {"detect_deepfake", "match_faces", "decide", "save_kyc", "send_email"}

\* C1: once verify_kyc has decided, is_deepfake true means the status is the
\* deepfake rejection, whatever similarity_percent and age_verified are; no
\* request with is_deepfake true is VERIFIED or REVIEW.
C1_DeepfakeOverrides ==
    (Ran("decide") /\ is_deepfake) =>
        /\ status = REJECTED_DEEPFAKE
        /\ status \notin {VERIFIED, REVIEW}

C1_Witness ==
    /\ Ran("decide") /\ is_deepfake
    /\ score = 10000 /\ age_status
    /\ status = REJECTED_DEEPFAKE

\* C2: the decision yields one of the three statuses and follows the priority
\* order: the deepfake rejection if is_deepfake; otherwise VERIFIED exactly when
\* similarity_percent > 75 and age_verified; otherwise REVIEW.  A similarity of
\* exactly 75 with age_verified and no deepfake gives REVIEW.
C2_DecisionMatchesReference ==
    Ran("decide") =>
        /\ status \in {VERIFIED, REVIEW, REJECTED_DEEPFAKE}
        /\ (is_deepfake => status = REJECTED_DEEPFAKE)
        /\ (~is_deepfake => (status = VERIFIED <=> (score > 7500 /\ age_status)))
        /\ (~is_deepfake /\ ~(score > 7500 /\ age_status) => status = REVIEW)
        /\ (~is_deepfake /\ score = 7500 /\ age_status => status = REVIEW)

C2_Witness ==
    /\ Ran("decide") /\ ~is_deepfake
    /\ score = 7500 /\ age_status
    /\ status = REVIEW

\* C3: a non-empty issue list ends the request with HTTP 400 and no later step
\* (deepfake detection, face matching, decision, save_kyc, email) ever runs;
\* the decision is only reached with an empty issue list.
C3_SlotIssuesStopTheRequest ==
    /\ issues # <<>> =>
          /\ pc = "raised"
          /\ http.code = 400 /\ http.message = "Invalid / mismatched uploads"
          /\ \A step \in AfterSlotCheck : ~Ran(step)
          /\ deepfake_result = NoDeepfakeResult
          /\ face_result = NoFaceResult
          /\ status = ""
          /\ storage = <<>>
          /\ email_result = NoEmailResult
    /\ (pc = "decide" \/ Ran("decide")) => (Ran("check_slots") /\ issues = <<>>)

C3_Witness ==
    /\ pc = "raised" /\ Ran("check_slots")
    /\ issues # <<>>
    /\ http.code = 400

Contains(list, m) == \E k \in 1 .. Len(list) : list[k] = m

\* C4: validate_kyc_slots with aadhaar_no None returns a non-empty list that
\* contains the Aadhaar-slot message, whatever the other arguments are.
C4_MissingAadhaarIsReported ==
    (fn = "validate_kyc_slots" /\ done /\ arg.aadhaar_no = None) =>
        (ret # <<>> /\ Contains(ret, MSG_AADHAAR))

C4_Witness ==
    /\ fn = "validate_kyc_slots" /\ done
    /\ arg.aadhaar_no = None
    /\ arg.dob # None /\ arg.dob # <<>> /\ arg.pan_no # None
    /\ arg.selfie_has_face /\ arg.selfie_text = <<>>
    /\ ret = <<MSG_AADHAAR>>

\* an Optional[str] argument that is None or empty
Absent(x) == x = None \/ x = <<>>

RuleTriggered(a, m) ==
    \/ m = MSG_AADHAAR /\ (Absent(a.aadhaar_no) \/ Absent(a.dob))
    \/ m = MSG_PAN /\ Absent(a.pan_no)
    \/ m = MSG_NO_FACE /\ ~a.selfie_has_face
    \/ m = MSG_SELFIE_DOC /\ selfie_looks_like_document(a.selfie_text)

\* C5: validate_kyc_slots returns exactly the messages of the triggered rules,
\* each once, in the order ID slot, tax slot, no face, selfie looks like a
\* document; the list has at most 4 entries and is empty exactly when
\* aadhaar_no, dob and pan_no are present, a face was found and the selfie text
\* does not look like a document.
C5_AllTriggeredRulesInOrder ==
    (fn = "validate_kyc_slots" /\ done) =>
        /\ ret = SelectSeq(<<MSG_AADHAAR, MSG_PAN, MSG_NO_FACE, MSG_SELFIE_DOC>>,
                           LAMBDA m : RuleTriggered(arg, m))
        /\ Len(ret) <= 4
        /\ (ret = <<>> <=>
              /\ ~Absent(arg.aadhaar_no) /\ ~Absent(arg.dob) /\ ~Absent(arg.pan_no)
              /\ arg.selfie_has_face
              /\ ~selfie_looks_like_document(arg.selfie_text))

C5_Witness ==
    /\ fn = "validate_kyc_slots" /\ done
    /\ ret = <<MSG_AADHAAR, MSG_PAN, MSG_NO_FACE, MSG_SELFIE_DOC>>

\* C6: a value returned by extract_aadhaar_number is exactly 12 decimal digits,
\* every separator of the matched group removed.
C6_TwelveDigits ==
    (fn = "extract_aadhaar_number" /\ done /\ ret # None) =>
        (Len(ret) = 12 /\ \A k \in 1 .. Len(ret) : ret[k] \in Digit)

TwoDigits(d) == Len(d) = 2 /\ IsDigits(d)

\* C7: a value returned by extract_dob, from either path, has the form
\* DD/MM/YYYY with a two-digit day in 1..31, a two-digit month in 1..12 and a
\* four-digit year.
C7_CanonicalDob ==
    (fn = "extract_dob" /\ done /\ ret.value # None) =>
        LET parts == Split(ret.value, "/")
        IN  /\ Len(parts) = 3
            /\ TwoDigits(parts[1]) /\ TwoDigits(parts[2])
            /\ Len(parts[3]) = 4 /\ IsDigits(parts[3])
            /\ ToInt(parts[1]) \in 1 .. 31
            /\ ToInt(parts[2]) \in 1 .. 12

\* C8: for the line "D0B: 02-O1-1995" extract_dob returns "02/01/1995".
C8_FuzzyLabelledDate ==
    (fn = "extract_dob" /\ done /\ arg = DOB_SAMPLE) =>
        ret.value = <<"0", "2", "/", "0", "1", "/", "1", "9", "9", "5">>

\* C11 as stated: on the fallback path, a text in which "Issued: 05/06/2020"
\* precedes an unlabelled valid birth date gives the birth date, whatever the
\* distance between the two dates.
C11_IssueDateSkippedAtAnyDistance ==
    (fn = "extract_dob" /\ done) =>
        \A gap \in IssueGaps, tail \in IssueTails :
            arg = ISSUED_SAMPLE \o gap \o BIRTH_SAMPLE \o tail =>
                ret = [value |-> BIRTH_SAMPLE, path |-> "fallback"]

\* C11 as amended: the same, provided at least three characters stand between
\* the issue date and the birth date, so that the word "Issued" lies outside
\* the 20 characters inspected before the birth date.
C11_IssueDateSkippedBeyondWindow ==
    (fn = "extract_dob" /\ done) =>
        \A gap \in IssueGaps, tail \in IssueTails :
            (arg = ISSUED_SAMPLE \o gap \o BIRTH_SAMPLE \o tail /\ Len(gap) >= 3) =>
                ret = [value |-> BIRTH_SAMPLE, path |-> "fallback"]

C11_Witness ==
    /\ fn = "extract_dob" /\ done
    /\ arg = ISSUED_SAMPLE \o <<" ", "\n", " ">> \o BIRTH_SAMPLE
    /\ ret = [value |-> BIRTH_SAMPLE, path |-> "fallback"]

\* s reads as a calendar date: a day of one or two digits (or a blank and a
\* digit), a month of one or two digits and a year of four digits, joined by
\* / or -, naming a day that exists
ReadsAsCalendarDate(s) ==
    \E ld \in 1 .. 2, lm \in 1 .. 2 :
        /\ Len(s) = ld + lm + 6
        /\ s[ld + 1] \in DateSep /\ s[ld + lm + 2] \in DateSep
        /\ \A k \in (1 .. Len(s)) \ {1, ld + 1, ld + lm + 2} : s[k] \in Digit
        /\ s[1] \in Digit \/ (ld = 2 /\ s[1] = " " /\ s[2] # "0")
        /\ LET d == ToInt(SelectSeq(SubSeq(s, 1, ld), LAMBDA c : c # " "))
               m == ToInt(SubSeq(s, ld + 2, ld + lm + 1))
               y == ToInt(SubSeq(s, ld + lm + 3, Len(s)))
           IN  y >= 1 /\ m \in 1 .. 12 /\ d >= 1 /\ d <= DaysInMonth(y, m)

\* C12: is_age_above_18 returns a boolean for every argument, and false for
\* every argument that does not read as a calendar date; in verify_kyc a
\* request whose date of birth does not read as one has age_status false and
\* is never VERIFIED.
C12_UnparseableIsNotAdult ==
    /\ (fn = "is_age_above_18" /\ done) =>
           /\ ret \in BOOLEAN
           /\ ~ReadsAsCalendarDate(arg.dob_str) => ret = FALSE
    /\ (fn = "verify_kyc" /\ Ran("ocr_aadhaar") /\ ~ReadsAsCalendarDate(dob)) =>
           /\ age_status = FALSE
           /\ status # VERIFIED

C12_Witness ==
    /\ fn = "verify_kyc" /\ Ran("decide")
    /\ dob = <<"4", "5", "/", "1", "3", "/", "1", "9", "9", "0">>
    /\ score > 7500 /\ ~is_deepfake
    /\ age_status = FALSE /\ status = REVIEW

\* every metric at the centre of its bell
CentreMetrics ==
    [sharpness |-> 200 * Scale, noise_level |-> 25 * Scale, artifact_score |-> 8 * Scale,
     consistency_score |-> Scale, color_variance |-> 45 * Scale]

C14_ScoresAndProbabilityInRange ==
    (fn = "detect_deepfake" /\ done) =>
        /\ \A k \in 1 .. 5 : 0 <= ret.scores[k].num /\ ret.scores[k].num <= ret.scores[k].den
        /\ 0 <= ret.probability /\ ret.probability <= 100 * Unit
        /\ 0 <= ret.verdict.confidence /\ ret.verdict.confidence <= 10000

C14_Witness ==
    /\ fn = "detect_deepfake" /\ done
    /\ arg.sharpness = 1000 * Scale /\ arg.noise_level = 100 * Scale
    /\ arg.artifact_score = 50 * Scale /\ arg.consistency_score = 0
    /\ arg.color_variance = 100 * Scale
    /\ ret.probability = 100 * Unit /\ ret.verdict.confidence = 10000

\* C20 as stated: is_deepfake is true exactly when the unrounded probability
\* exceeds 45; the confidence is the probability when flagged and 100 minus
\* the probability otherwise, as reported to two decimals; so the confidence
\* is greater than 45 in every flagged result and at least 55 in every other.
C20_ThresholdAndConfidence ==
    (fn = "detect_deepfake" /\ done) =>
        LET flagged == ret.verdict.is_deepfake = "True"
        IN  /\ ret.verdict.is_deepfake \in {"True", "False"}
            /\ flagged <=> ret.probability > 45 * Unit
            /\ ret.verdict.confidence =
                   Round2(IF flagged THEN ret.probability
                          ELSE 100 * Unit - ret.probability, Unit)
            /\ flagged => ret.verdict.confidence > 4500
            /\ ~flagged => ret.verdict.confidence >= 5500

\* C20 as amended: the same, except that the reported confidence of a flagged
\* result is at least 45: it is 45.0 when the probability lies between 45 and
\* 45.005.
C20_ThresholdAndRoundedConfidence ==
    (fn = "detect_deepfake" /\ done) =>
        LET flagged == ret.verdict.is_deepfake = "True"
        IN  /\ ret.verdict.is_deepfake \in {"True", "False"}
            /\ flagged <=> ret.probability > 45 * Unit
            /\ ret.verdict.confidence =
                   Round2(IF flagged THEN ret.probability
                          ELSE 100 * Unit - ret.probability, Unit)
            /\ flagged => ret.verdict.confidence >= 4500
            /\ ~flagged => ret.verdict.confidence >= 5500

\* probability exactly 45 is not flagged
C20_Witness ==
    /\ fn = "detect_deepfake" /\ done
    /\ ret.probability = 45 * Unit
    /\ ret.verdict.is_deepfake = "False" /\ ret.verdict.confidence = 5500

\* the ID number stands in text at position p, spaced or bare
EmbeddedAt(text, p) ==
    \/ p + 13 <= Len(text) /\ SubSeq(text, p, p + 13) = ID_SPACED
    \/ p + 11 <= Len(text) /\ SubSeq(text, p, p + 11) = ID_BARE

EmbeddedLen(text, p) ==
    IF p + 13 <= Len(text) /\ SubSeq(text, p, p + 13) = ID_SPACED THEN 14 ELSE 12

NoGroupBefore(text, p) == \A q \in 1 .. (p - 1) : AadhaarMatchLen(text, q) = 0

\* C9 as stated: a text that contains "1234 5678 9012" or "123456789012"
\* anywhere, whatever stands right before and after it, with no other ID-shaped
\* group before it, gives "123456789012".
C9_EmbeddedAnywhere ==
    (fn = "extract_aadhaar_number" /\ done) =>
        \A p \in 1 .. Len(arg) :
            (EmbeddedAt(arg, p) /\ NoGroupBefore(arg, p)) => ret = ID_BARE

\* C9 as amended: the same, provided the character right before and the
\* character right after the number, if any, is not a letter, digit or
\* underscore.
C9_EmbeddedBetweenNonWordChars ==
    (fn = "extract_aadhaar_number" /\ done) =>
        \A p \in 1 .. Len(arg) :
            ( /\ EmbeddedAt(arg, p)
              /\ At(arg, p - 1) \notin WordChar
              /\ At(arg, p + EmbeddedLen(arg, p)) \notin WordChar
              /\ NoGroupBefore(arg, p) ) => ret = ID_BARE

C9_Witness ==
    /\ fn = "extract_aadhaar_number" /\ done
    /\ arg = <<".">> \o ID_SPACED \o <<" ">>
    /\ ret = ID_BARE

IsPanShape(s) ==
    /\ Len(s) = 10
    /\ \A k \in 1 .. 5 : s[k] \in Upper
    /\ \A k \in 6 .. 9 : s[k] \in Digit
    /\ s[10] \in Upper

\* C10: extract_pan_number matches the text as given, case-sensitively: it
\* returns the leftmost substring of 5 upper-case letters, 4 digits and 1
\* upper-case letter, and nothing when there is none; "Name ABCDE1234F PAN"
\* gives "ABCDE1234F" and the lower-cased text gives nothing.
C10_PanCaseSensitiveLeftmost ==
    (fn = "extract_pan_number" /\ done) =>
        LET starts == {i \in 1 .. (Len(arg) - 9) : IsPanShape(SubSeq(arg, i, i + 9))}
        IN  /\ (arg = PAN_SAMPLE => ret = <<"A", "B", "C", "D", "E", "1", "2", "3", "4", "F">>)
            /\ (arg = PAN_SAMPLE_LOWER => ret = None)
            /\ (starts = {} <=> ret = None)
            /\ (starts # {} =>
                  /\ IsPanShape(ret)
                  /\ \E i \in starts :
                       /\ ret = SubSeq(arg, i, i + 9)
                       /\ \A j \in starts : i <= j)

C10_Witness ==
    /\ fn = "extract_pan_number" /\ done
    /\ arg = PAN_SAMPLE
    /\ ret = <<"A", "B", "C", "D", "E", "1", "2", "3", "4", "F">>

(***************************************************************************)
(* Several requests of verify_kyc served at once (final_kyc_api.py lines  *)
(* 139-201).  Each request writes its three uploads under names drawn by  *)
(* uuid.uuid4(), reads them back, and runs the core functions on what it  *)
(* read.  An image is modelled by what its readers get out of it: the OCR *)
(* text, the face (0 for none, else whose face it is) and the metrics of  *)
(* the deepfake scorer.  datetime.now() is the date on the shared clock.  *)
(***************************************************************************)
RequestIds == {1, 2}

Slots == {"aadhaar", "pan", "selfie"}

\* the names uuid4 can draw
FileNames == {1, 2}

NoFile == [text |-> None, face |-> 0, metrics |-> UnreadableMetrics]

AADHAAR_CARD ==
    ID_SPACED \o <<"\n", "D", "O", "B", ":", " ", "0", "2", "/", "0", "1", "/", "1", "9", "9", "5">>

RealSelfie ==
    [sharpness |-> 200 * Scale, noise_level |-> 25 * Scale, artifact_score |-> 8 * Scale,
     consistency_score |-> Scale, color_variance |-> 45 * Scale]

SmoothSelfie ==
    [sharpness |-> 600 * Scale, noise_level |-> 5 * Scale, artifact_score |-> 0,
     consistency_score |-> 0, color_variance |-> 45 * Scale]

AadhaarImages ==
    { [text |-> t, face |-> 1, metrics |-> RealSelfie] : t \in {AADHAAR_CARD, ID_SPACED} }

PanImages ==
    { [text |-> PAN_SAMPLE, face |-> f, metrics |-> RealSelfie] : f \in {1, 2} }

SelfieImages ==
    { [text |-> <<>>, face |-> 1, metrics |-> m] : m \in {RealSelfie, SmoothSelfie} }

UploadSets == [aadhaar : AadhaarImages, pan : PanImages, selfie : SelfieImages]

\* the last day on which the holder of AADHAAR_CARD is not yet 18, and the next
FirstDay == Ordinal(1995, 1, 2) + 6569
LastDay  == FirstDay + 1

\* _cosine_similarity of two face encodings, in 1/100000
FaceCosine(a, b) == IF a = b THEN 100000 ELSE 50000

\* uuid4 drawing a name already taken in the folder
uuid4_reused(folder) == FileNames

\* uuid.uuid4(): a name no file of the folder has
uuid4(folder) == {n \in FileNames : folder[n] = NoFile}

NewRequest(upload) ==
    [upload |-> upload, pc |-> "write_files",
     paths |-> [s \in Slots |-> 0], ran_on |-> 0,
     aadhaar_no |-> None, dob |-> None, age_status |-> FALSE,
     pan_no |-> None, selfie_text |-> <<>>, selfie_has_face |-> FALSE,
     issues |-> <<>>, deepfake_result |-> NoDeepfakeResult,
     face_result |-> NoFaceResult, status |-> "", code |-> 0]

\* lines 139-151: three names are drawn and the uploads written under them
WriteFilesOf(r) ==
    /\ fn = "concurrent_requests"
    /\ requests[r].pc = "write_files"
    /\ \E a \in uuid4(uploads_dir.aadhaar), p \in uuid4(uploads_dir.pan),
          s \in uuid4(uploads_dir.selfie) :
         /\ uploads_dir' =
                [aadhaar |-> [uploads_dir.aadhaar EXCEPT ![a] = requests[r].upload.aadhaar],
                 pan     |-> [uploads_dir.pan EXCEPT ![p] = requests[r].upload.pan],
                 selfie  |-> [uploads_dir.selfie EXCEPT ![s] = requests[r].upload.selfie]]
         /\ requests' = [requests EXCEPT ![r] =
                [@ EXCEPT !.pc = "extract",
                          !.paths = [aadhaar |-> a, pan |-> p, selfie |-> s]]]
    /\ UNCHANGED <<callVars, reqVars, clock>>

\* lines 154-164: the three files are read back and the fields extracted
ExtractOf(r) ==
    /\ fn = "concurrent_requests"
    /\ requests[r].pc = "extract"
    /\ \E a \in {uploads_dir.aadhaar[requests[r].paths.aadhaar]},
          p \in {uploads_dir.pan[requests[r].paths.pan]},
          s \in {uploads_dir.selfie[requests[r].paths.selfie]} :
         \E found \in {extract_dob(a.text)} :
           requests' = [requests EXCEPT ![r] =
                [@ EXCEPT !.pc = "check_slots",
                          !.ran_on = clock,
                          !.aadhaar_no = extract_aadhaar_number(a.text),
                          !.dob = found,
                          !.age_status = IF ~Falsy(found)
                                         THEN is_age_above_18(found, clock)
                                         ELSE FALSE,
                          !.pan_no = extract_pan_number(p.text),
                          !.selfie_text = s.text,
                          !.selfie_has_face = s.face # 0]]
    /\ UNCHANGED <<callVars, reqVars, clock, uploads_dir>>

\* lines 166-185
CheckSlotsOf(r) ==
    /\ fn = "concurrent_requests"
    /\ requests[r].pc = "check_slots"
    /\ \E found \in {validate_kyc_slots(requests[r].aadhaar_no, requests[r].dob,
                                        requests[r].pan_no, requests[r].selfie_text,
                                        requests[r].selfie_has_face)} :
         requests' = [requests EXCEPT ![r] =
              [@ EXCEPT !.issues = found,
                        !.pc = IF HasIssues(found) THEN "raised" ELSE "decide",
                        !.code = IF HasIssues(found) THEN 400 ELSE 0]]
    /\ UNCHANGED <<callVars, reqVars, clock, uploads_dir>>

\* lines 188-199: detect_deepfake and match_faces read the files again
DecideOf(r) ==
    /\ fn = "concurrent_requests"
    /\ requests[r].pc = "decide"
    /\ \E p \in {uploads_dir.pan[requests[r].paths.pan]},
          s \in {uploads_dir.selfie[requests[r].paths.selfie]} :
         \E fake \in {detect_deepfake(TRUE, s.metrics)},
            faces \in {match_faces(p.face # 0, s.face # 0, FaceCosine(p.face, s.face))} :
           requests' = [requests EXCEPT ![r] =
                [@ EXCEPT !.deepfake_result = fake,
                          !.face_result = faces,
                          !.status = final_status(GetSimilarity(faces),
                                                  requests[r].age_status,
                                                  PyBool(fake.is_deepfake)),
                          !.pc = "done",
                          !.code = 200]]
    /\ UNCHANGED <<callVars, reqVars, clock, uploads_dir>>

\* midnight passes
Tick ==
    /\ fn = "concurrent_requests"
    /\ clock < LastDay
    /\ clock' = clock + 1
    /\ UNCHANGED <<callVars, reqVars, uploads_dir, requests>>

InitConcurrent ==
    /\ fn = "concurrent_requests"
    /\ arg = None
    /\ ret = None
    /\ done = FALSE
    /\ LocalsAt("idle")
    /\ clock = FirstDay
    /\ uploads_dir = [s \in Slots |-> [n \in FileNames |-> NoFile]]
    /\ requests \in [RequestIds -> {NewRequest(u) : u \in UploadSets}]

NextConcurrent ==
    \/ \E r \in RequestIds : WriteFilesOf(r)
    \/ \E r \in RequestIds : ExtractOf(r)
    \/ \E r \in RequestIds : CheckSlotsOf(r)
    \/ \E r \in RequestIds : DecideOf(r)
    \/ Tick

SpecConcurrent == InitConcurrent /\ [][NextConcurrent]_vars

(***************************************************************************)
(* C15                                                                     *)
(***************************************************************************)
\* what a request with these uploads produces when it is the only one and
\* reads the date today
Alone(upload, today) ==
    LET found  == extract_dob(upload.aadhaar.text)
        a_no   == extract_aadhaar_number(upload.aadhaar.text)
        p_no   == extract_pan_number(upload.pan.text)
        age_ok == IF ~Falsy(found) THEN is_age_above_18(found, today) ELSE FALSE
        iss    == validate_kyc_slots(a_no, found, p_no, upload.selfie.text,
                                     upload.selfie.face # 0)
        fake   == detect_deepfake(TRUE, upload.selfie.metrics)
        faces  == match_faces(upload.pan.face # 0, upload.selfie.face # 0,
                              FaceCosine(upload.pan.face, upload.selfie.face))
    IN  [aadhaar_no |-> a_no, dob |-> found, pan_no |-> p_no, age_status |-> age_ok,
         issues |-> iss, is_deepfake |-> fake.is_deepfake,
         status |-> final_status(GetSimilarity(faces), age_ok, PyBool(fake.is_deepfake))]

Extracted(r) == requests[r].pc \in {"check_slots", "decide", "raised", "done"}

\* request r has, at every step it has taken, the results Alone gives
AsAlone(r) ==
    \A alone \in {Alone(requests[r].upload, requests[r].ran_on)} :
        /\ Extracted(r) =>
               /\ requests[r].aadhaar_no = alone.aadhaar_no
               /\ requests[r].dob = alone.dob
               /\ requests[r].pan_no = alone.pan_no
               /\ requests[r].age_status = alone.age_status
        /\ requests[r].pc \in {"decide", "raised", "done"} =>
               requests[r].issues = alone.issues
        /\ requests[r].pc = "done" =>
               /\ requests[r].deepfake_result.is_deepfake = alone.is_deepfake
               /\ requests[r].status = alone.status

\* C15 as stated: every core function is a function of its arguments alone, so
\* two requests that extracted the same date of birth hold the same age
\* result, and every request of an interleaving has the results it would
\* have alone.
C15_SameArgumentsSameResult ==
    fn = "concurrent_requests" =>
        /\ \A r \in RequestIds : AsAlone(r)
        /\ \A r, q \in RequestIds :
               (Extracted(r) /\ Extracted(q) /\ requests[r].dob = requests[q].dob) =>
                   requests[r].age_status = requests[q].age_status

\* C15 amended: is_age_above_18 reads the current date besides its argument,
\* so two requests that extracted the same date of birth on the same day hold
\* the same age result; every request of an interleaving has the results it
\* would have alone on the day it read the date.
C15_SameArgumentsAndDaySameResult ==
    fn = "concurrent_requests" =>
        /\ \A r \in RequestIds : AsAlone(r)
        /\ \A r, q \in RequestIds :
               (Extracted(r) /\ Extracted(q) /\ requests[r].dob = requests[q].dob
                    /\ requests[r].ran_on = requests[q].ran_on) =>
                   requests[r].age_status = requests[q].age_status

\* two requests with different uploads ran interleaved and midnight passed
\* between their readings of the date; both finished
C15_Witness ==
    /\ fn = "concurrent_requests"
    /\ requests[1].pc = "done" /\ requests[2].pc = "done"
    /\ requests[1].upload # requests[2].upload
    /\ requests[1].dob = requests[2].dob
    /\ requests[1].ran_on = FirstDay /\ requests[2].ran_on = LastDay
    /\ requests[1].status = REVIEW /\ requests[2].status = VERIFIED

(***************************************************************************)
(* C16                                                                     *)
(***************************************************************************)
\* the dates found in the candidates of the DOB-labelled lines of a text
\* that fail the range test of lines 36-39
FailedDates(text) ==
    LET lines == SplitLines(text)
    IN  UNION { {dates[k] : k \in {j \in 1 .. Len(dates) :
                                     dates[j] # None /\ ~DayMonthInRange(dates[j])}} :
                dates \in {LineDates(lines[n]) : n \in {j \in 1 .. Len(lines) :
                                                          HasDobLabel(lines[j])}} }

\* C16: a candidate of a labelled line whose day or month is out of range is
\* skipped for the next candidate; when no candidate of any labelled line
\* passes, no later step returns a date that failed: the result is absent
\* or a different date.
C16_FailedDateNotReturned ==
    (fn = "extract_dob" /\ done) =>
        /\ ret.path = "labelled" => DayMonthInRange(ret.value)
        /\ ret.path # "labelled" => ret.value \notin FailedDates(arg)

(***************************************************************************)
(* C17                                                                     *)
(***************************************************************************)
\* the characters the recogniser may have put for a digit
AmbiguousChars == {"o", "O", "b", "B", "s", "S", "e", "E", "l", "L", "i", "I", "z", "Z"}

\* C17: _generate_date_candidates returns at most 65 candidates (64
\* combinations and the cleaned original, which comes last) however many
\* ambiguous characters the line holds, and exactly one candidate, the
\* cleaned original, for a line with no ambiguous character.
C17_AtMost65Candidates ==
    (fn = "_generate_date_candidates" /\ done) =>
        /\ Len(ret) >= 1 /\ Len(ret) <= 65
        /\ ret[Len(ret)] = clean_possible_dob(arg)
        /\ (\A k \in 1 .. Len(arg) : arg[k] \notin AmbiguousChars) =>
               ret = <<clean_possible_dob(arg)>>

\* a line of eight two-choice characters: 256 combinations, 65 candidates
C17_Witness ==
    /\ fn = "_generate_date_candidates" /\ done
    /\ arg = <<"s", "E", "s", "E", "s", "E", "s", "E">>
    /\ Len(ret) = 65
    /\ ret[1] = <<"5", "8", "5", "8", "5", "8", "5", "8">>
    /\ ret[64] = <<"5", "8", "8", "6", "8", "6", "8", "6">>
    /\ ret[65] = <<"5", "6", "5", "6", "5", "6", "5", "6">>

(***************************************************************************)
(* C18                                                                     *)
(***************************************************************************)
HasTaxIdShape(t) ==
    \E i \in 1 .. (Len(t) - 9) : IsPanShape(SubSeq(t, i, i + 9))

HasIdGroup(t) == \E p \in 1 .. Len(t) : AadhaarMatchLen(t, p) # 0

AlnumCount(t) == Cardinality({k \in 1 .. Len(t) : t[k] \in Digit \cup Upper \cup Lower})

\* C18: the selfie-looks-like-a-document message is in the list exactly when
\* the selfie text is non-empty and its upper-cased form holds a substring of
\* 5 letters, 4 digits, 1 letter or an ID-number group, or the text has at
\* least 35 alphanumeric characters; 34 without a pattern is not flagged.
C18_SelfieDocumentMessage ==
    (fn = "validate_kyc_slots" /\ done) =>
        LET text == arg.selfie_text
        IN  Contains(ret, MSG_SELFIE_DOC) <=>
                /\ ~Absent(text)
                /\ \/ HasTaxIdShape(StrUpper(text))
                   \/ HasIdGroup(StrUpper(text))
                   \/ AlnumCount(text) >= 35

\* a text holding the lower-case tax ID abcde1234f, far fewer than 35
\* alphanumeric characters, is flagged on a request that is otherwise in order
C18_Witness ==
    /\ fn = "validate_kyc_slots" /\ done
    /\ arg.selfie_text = PAN_SAMPLE_LOWER
    /\ AlnumCount(arg.selfie_text) < 35
    /\ arg.selfie_has_face
    /\ ret = <<MSG_SELFIE_DOC>>

(***************************************************************************)
(* C19                                                                     *)
(***************************************************************************)
\* the ordinal of the day a string that reads as a calendar date names
BornOn(s) ==
    LET parts == Split(ReplaceChar(s, "-", "/"), "/")
    IN  Ordinal(ToInt(parts[3]), ToInt(parts[2]),
                ToInt(SelectSeq(parts[1], LAMBDA c : c # " ")))

\* C19: for a date of birth that parses, is_age_above_18 is true exactly when
\* the days from the date of birth to now, floor-divided by 365, are at least
\* 18, which is exactly from 6570 days on; a date of birth in the future
\* gives false; "01/01/2000" gives true whenever now is after 2018-01-01.
C19_AdultFrom6570Days ==
    (fn = "is_age_above_18" /\ done /\ arg.dob_str # None
        /\ ReadsAsCalendarDate(arg.dob_str)) =>
        LET days == arg.today - BornOn(arg.dob_str)
        IN  /\ ret <=> (days \div 365 >= 18)
            /\ ret <=> (days >= 6570)
            /\ days < 0 => ret = FALSE
            /\ (arg.dob_str = <<"0", "1", "/", "0", "1", "/", "2", "0", "0", "0">>
                   /\ arg.today > Ordinal(2018, 1, 1)) => ret = TRUE

\* 6570 days after 01/01/2000, five days short of the 18th birthday
C19_Witness ==
    /\ fn = "is_age_above_18" /\ done
    /\ arg.dob_str = <<"0", "1", "/", "0", "1", "/", "2", "0", "0", "0">>
    /\ arg.today = Ordinal(2000, 1, 1) + 6570
    /\ arg.today < Ordinal(2018, 1, 1)
    /\ ret = TRUE

(***************************************************************************)
(* C21                                                                     *)
(***************************************************************************)
\* the selfie text is empty or holds neither ID pattern nor 35 alphanumerics
NotADocument(text) ==
    \/ Absent(text)
    \/ /\ ~HasTaxIdShape(StrUpper(text))
       /\ ~HasIdGroup(StrUpper(text))
       /\ AlnumCount(text) < 35

\* C21: a request of verify_kyc whose status, saved record or response is
\* VERIFIED had an ID number, a date of birth and a tax ID extracted, a face
\* found in the selfie, a selfie text that does not look like a document,
\* age_verified true, is_deepfake false and a similarity above 75; the saved
\* record carries those very values.
C21_VerifiedPassedEveryCheck ==
    fn = "verify_kyc" =>
        /\ (\/ status = VERIFIED
            \/ http.final_status = VERIFIED
            \/ \E k \in 1 .. Len(storage) : storage[k].kyc_status = VERIFIED) =>
               /\ ~Absent(aadhaar_no) /\ ~Absent(dob) /\ ~Absent(pan_no)
               /\ selfie_has_face
               /\ NotADocument(selfie_text)
               /\ issues = <<>>
               /\ age_status
               /\ ~is_deepfake /\ deepfake_result.is_deepfake # "True"
               /\ score > 7500
        /\ \A k \in 1 .. Len(storage) :
               storage[k].kyc_status = VERIFIED =>
                   /\ storage[k].aadhaar = aadhaar_no /\ storage[k].pan = pan_no
                   /\ storage[k].dob = dob
                   /\ storage[k].age_verified = TRUE
                   /\ storage[k].face_score > 7500

\* a VERIFIED request answered: record saved, response sent
C21_Witness ==
    /\ fn = "verify_kyc" /\ pc = "done"
    /\ http.code = 200 /\ http.final_status = VERIFIED
    /\ Len(storage) = 1 /\ storage[1].kyc_status = VERIFIED
    /\ selfie_text = <<"h", "i">>
    /\ storage[1].face_score = 10000

(***************************************************************************)
(* C22                                                                     *)
(***************************************************************************)
\* the status as a function of the three inputs of the decision
DecisionOn(fake, sim, age_ok) ==
    IF fake THEN REJECTED_DEEPFAKE
    ELSE IF sim > 7500 /\ age_ok THEN VERIFIED
    ELSE REVIEW

\* C22: the status of a decided request is a function of is_deepfake, the
\* similarity_percent of the face comparison (0 when the comparison failed
\* and reports none) and age_verified; the match flag and the cosine do not
\* enter it, so requests equal in the three and different in match have the
\* same status.
C22_MatchFlagNeverConsulted ==
    (fn = "verify_kyc" /\ Ran("decide")) =>
        /\ status = DecisionOn(deepfake_result.is_deepfake = "True",
                               IF face_result.failed THEN 0
                               ELSE face_result.similarity_percent,
                               age_status)
        /\ face_result.failed => (score = 0 /\ status # VERIFIED)

\* cosine 0.59995: similarity 80.00 as for cosine 0.6, but no match; VERIFIED
C22_Witness ==
    /\ fn = "verify_kyc" /\ Ran("decide")
    /\ ~face_result.failed /\ ~face_result.match
    /\ face_result.similarity_percent = 8000
    /\ face_result.similarity_percent = match_faces(TRUE, TRUE, 60000).similarity_percent
    /\ match_faces(TRUE, TRUE, 60000).match
    /\ status = VERIFIED

(***************************************************************************)
(* C23                                                                     *)
(***************************************************************************)
\* the record save_kyc inserts for the locals of the request
RecordOfRequest ==
    [aadhaar |-> aadhaar_no, pan |-> pan_no, dob |-> dob,
     age_verified |-> age_status, face_score |-> score,
     kyc_status |-> status, email |-> arg]

EndsWith(s, suffix) ==
    /\ Len(s) >= Len(suffix)
    /\ SubSeq(s, Len(s) - Len(suffix) + 1, Len(s)) = suffix

\* an upload that passes: a name ending in .jpg, .jpeg or .png in any case,
\* a content type that is absent or image/*, and a decodable image
AcceptableUpload(u) ==
    /\ \E e \in {<<".", "j", "p", "g">>, <<".", "j", "p", "e", "g">>, <<".", "p", "n", "g">>} :
           EndsWith(StrLower(u.filename), e)
    /\ \/ Absent(u.content_type)
       \/ /\ Len(u.content_type) >= 6
          /\ StrLower(SubSeq(u.content_type, 1, 6)) = <<"i", "m", "a", "g", "e", "/">>
    /\ u.decodable

\* C24: the three uploads are all validated before any is written: the
\* validation fails exactly when one of the three is not acceptable, and a
\* request whose validation failed ends with HTTP 400 with no upload written,
\* no text extracted, no record saved and no email attempted; files are only
\* written with three accepted extensions.
C24_ValidatedBeforeWritten ==
    /\ (fn = "validate_uploads" /\ done) =>
           (ret.message # "" <=>
                \E slot \in {"aadhaar", "pan", "selfie"} : ~AcceptableUpload(arg[slot]))
    /\ (fn = "verify_kyc" /\ pc = "raised" /\ ~Ran("write_files")) =>
           /\ http.code = 400
           /\ http.message \in {"Invalid file format", "Invalid content type",
                                "Corrupted or non-image file"}
           /\ files_written = 0 /\ exts = None
           /\ ran = <<"validate_uploads">>
           /\ aadhaar_no = None /\ dob = None /\ pan_no = None /\ selfie_text = <<>>
           /\ storage = <<>>
           /\ email_result = NoEmailResult
    /\ (fn = "verify_kyc" /\ files_written > 0) =>
           /\ ran[1] = "validate_uploads" /\ Ran("write_files")
           /\ \A k \in 1 .. 3 : exts[k] \in {<<"j", "p", "g">>, <<"j", "p", "e", "g">>, <<"p", "n", "g">>}

\* a request whose uploads have good names and content types but one image
\* that does not decode: HTTP 400 and nothing written
C24_Witness ==
    /\ fn = "verify_kyc" /\ pc = "raised" /\ done
    /\ http = Raise400("Corrupted or non-image file")
    /\ files_written = 0
    /\ ran = <<"validate_uploads">>

(***************************************************************************)
(* C25                                                                     *)
(***************************************************************************)
\* the deepfake analysis of the selfie was not carried out: the file was
\* missing (lines 182-187) or cv2 could not read it and every metric fell
\* back to 0
NotAnalysed(result) ==
    \/ result.error = "Image file not found"
    \/ result = detect_deepfake(TRUE, UnreadableMetrics)

\* C25: whenever the deepfake analysis of the selfie cannot be carried out
\* (the image file is missing, or the image is unreadable so that every
\* metric defaults to 0), the status of the request, its response and its
\* saved record are never VERIFIED.
C25_NotAnalysedNeverVerified ==
    (fn = "verify_kyc" /\ Ran("detect_deepfake") /\ NotAnalysed(deepfake_result)) =>
        /\ status # VERIFIED
        /\ http.final_status # VERIFIED
        /\ \A k \in 1 .. Len(storage) : storage[k].kyc_status # VERIFIED

\* the selfie was removed after the slot check: detect_deepfake reports no
\* verdict, which line 195 reads as not a deepfake, match_faces finds no
\* face in the selfie, and the request is answered and saved as REVIEW
C25_Witness ==
    /\ fn = "verify_kyc" /\ pc = "done"
    /\ selfie_file = "missing"
    /\ deepfake_result.error = "Image file not found"
    /\ deepfake_result.is_deepfake = "None" /\ ~is_deepfake
    /\ face_result.error = "No face detected in Selfie" /\ score = 0
    /\ age_status
    /\ http.code = 200 /\ http.final_status = REVIEW
    /\ Len(storage) = 1 /\ storage[1].kyc_status = REVIEW

====
